---- MODULE Spec2Model ----
(***************************************************************************)
(* DeployShield anomaly-scoring core: AlertEngine (threshold + hysteresis  *)
(* state machine), ScoringEngine (LEARNING -> SCORING pipeline over the    *)
(* isolation forest, EWMA and calibration) and the SessionManager tick     *)
(* loop that drives both.                                                  *)
(*                                                                         *)
(* Real-valued quantities (forest score, EWMA, combined signal) are kept   *)
(* in fixed point, SCALE units per 1.0.                                    *)
(***************************************************************************)
EXTENDS Integers, Sequences, FiniteSets, TLC

\* ------------------------------------------------------------------------
\* Bounds of the model
\* ------------------------------------------------------------------------
\* evaluate calls per session when the alert engine is driven directly
MaxEvals == 4

\* ticks per session of the tick loop (enough to overflow the history buffer)
MaxTicks == 146

\* Scores handed to AlertEngine.evaluate when it is driven directly: every
\* tier boundary, its neighbours, and pairs 10 apart inside each tier.
Scores == {0, 49, 50, 60, 71, 72, 81, 82, 85, 86, 90, 92, 95, 96, 100}

\* ------------------------------------------------------------------------
\* AlertEngine.js
\* ------------------------------------------------------------------------
THRESHOLDS ==
    [ WARNING   |-> [score |-> 50, consecutiveTicks |-> 3],
      CRITICAL  |-> [score |-> 72, consecutiveTicks |-> 1],
      EMERGENCY |-> [score |-> 86, consecutiveTicks |-> 1] ]

\* evaluate returns null
NoAlert == "null"

Severities == {"WARNING", "CRITICAL", "EMERGENCY"}

\* hysteresis delta of evaluate
HysteresisDelta == 10

VARIABLES
    consecutiveHigh,   \* AlertEngine.consecutiveHigh
    lastFiredScore,    \* AlertEngine.lastFiredScore
    lastFiredSev,      \* AlertEngine.lastFiredSev
    activeAlerts,      \* AlertEngine.activeAlerts, most recent first
    sevHistory,        \* AlertEngine.sevHistory
    evalLog,           \* the evaluate calls of the session: score and return
    emails             \* the _sendEmailAlert calls of the session

alertVars == <<consecutiveHigh, lastFiredScore, lastFiredSev, activeAlerts,
               sevHistory, evalLog, emails>>

VARIABLES
    isoForest,         \* ScoringEngine.IF: trained flag and the built forest
    ewma,              \* ScoringEngine.ewma, fixed point
    trained,           \* ScoringEngine.trained
    lastScore,         \* ScoringEngine.lastScore
    scoreHistory,      \* ScoringEngine.scoreHistory
    result,            \* what the latest ScoringEngine.update returned
    trainCalls         \* IsolationForest.train calls since the engine reset

scoringVars == <<isoForest, ewma, trained, lastScore, scoreHistory, result,
                 trainCalls>>

VARIABLES
    history,           \* the session's history buffer
    mode,              \* scraper.mode
    tickCount,         \* scraper.tickCount
    attrWindow         \* the baseline the latest tick handed to compute

sessionVars == <<history, mode, tickCount, attrWindow>>

VARIABLES
    calArgs,           \* the inputs calibrate is applied to
    calRets            \* what calibrate returned for them, in order

calVars == <<calArgs, calRets>>

VARIABLES
    forestLog          \* the direct calls on a forest and what they returned

VARIABLES
    treesBuilt,        \* trees train has built so far (this.forest.length)
    pathSum            \* their path lengths for the scored point, summed

buildVars == <<treesBuilt, pathSum>>

VARIABLES
    attrSnapshot,      \* compute's snapshot argument, per metric
    attrBaseline,      \* compute's baseline argument
    attribution        \* what compute returned

attrVars == <<attrSnapshot, attrBaseline, attribution>>

VARIABLES
    timerOn,           \* the session's setInterval timer is armed
    timerFires,        \* callbacks the timer has started
    inflight,          \* callbacks suspended at an await, by start number
    appendOrder,       \* start numbers of the callbacks, as they appended
    evalOrder,         \* start numbers of the callbacks, as they evaluated
    broadcasts         \* messages sent to the session's subscribers

asyncVars == <<timerOn, timerFires, inflight, appendOrder, evalOrder,
               broadcasts>>

VARIABLES
    probes,            \* VercelScraper.probes, the rolling window
    fetched            \* the snapshots fetchMetrics returned, in order

scrapeVars == <<probes, fetched>>

VARIABLES
    rlNow,             \* Date.now(), in units of 500 ms
    rlTokens,          \* RateLimiter.tokens
    rlQueue,           \* RateLimiter.queue, request numbers, oldest first
    rlInFlight,        \* RateLimiter.inFlight
    rlLastCallTime,    \* RateLimiter.lastCallTime
    rlTimers,          \* due times of the pending setTimeout(_drain) timers
    rlNextRefill,      \* due time of the refill interval's next callback
    rlStarts,          \* the functions started: request number and time
    rlCalls,           \* schedule calls made so far
    rlRejected         \* request numbers schedule rejected

limiterVars == <<rlNow, rlTokens, rlQueue, rlInFlight, rlLastCallTime,
                 rlTimers, rlNextRefill, rlStarts, rlCalls, rlRejected>>

VARIABLES
    feedScore,         \* the constant forest score fed to the EWMA
    feedEwma,          \* the EWMA after the ticks fed so far
    feedTicks          \* ticks fed so far

feedVars == <<feedScore, feedEwma, feedTicks>>

VARIABLES
    trendHist,         \* ScoringEngine.scoreHistory when scores are pushed directly
    trendRet           \* what _computeTrend returned after the latest push

trendVars == <<trendHist, trendRet>>

VARIABLES
    treeStack,         \* IsoTree.build calls not yet made: partition and depth
    treeNodes          \* the nodes build has returned so far, in call order

treeVars == <<treeStack, treeNodes>>

VARIABLES
    analyzing,         \* session.analyzing
    streams            \* the streamAnalysis calls in flight, by origin

streamVars == <<analyzing, streams>>

VARIABLES
    session,           \* the store's session of the browser loop (null or set)
    loopKind,          \* which tick loop drives the engines
    deployLog          \* the calls of the hook's deploy(): what each one found

clientVars == <<session, loopKind, deployLog>>

VARIABLES
    sessions,          \* SessionManager's registry: the entries, one per id
    intervals,         \* interval handles armed and not cleared
    timerSeq,          \* interval handles created so far
    endRet             \* what the latest endSession call returned

registryVars == <<sessions, intervals, timerSeq, endRet>>

moreVars == <<trendVars, treeVars, streamVars, clientVars, registryVars>>

extVars == <<scrapeVars, limiterVars, feedVars, moreVars>>

auxVars == <<calVars, forestLog, buildVars, attrVars, asyncVars, extVars>>

vars == <<alertVars, scoringVars, sessionVars, auxVars>>

NextConsecutiveHighWarningBand(score, ch) ==
    IF score >= THRESHOLDS.WARNING.score /\ score < THRESHOLDS.CRITICAL.score
    THEN ch + 1 ELSE 0

\* evaluate, lines 41-42: the consecutive-high counter after this score
NextConsecutiveHigh(score, ch) ==
    IF score >= THRESHOLDS.WARNING.score THEN ch + 1 ELSE 0

SelectSeverityNoGate(score, ch) ==
    IF score >= THRESHOLDS.EMERGENCY.score THEN "EMERGENCY"
    ELSE IF score >= THRESHOLDS.CRITICAL.score THEN "CRITICAL"
    ELSE IF ch >= 2 THEN "WARNING"
    ELSE NoAlert

SelectSeverityCriticalFirst(score, ch) ==
    IF score >= THRESHOLDS.CRITICAL.score THEN "CRITICAL"
    ELSE IF score >= THRESHOLDS.EMERGENCY.score THEN "EMERGENCY"
    ELSE IF ch >= THRESHOLDS.WARNING.consecutiveTicks THEN "WARNING"
    ELSE NoAlert

\* evaluate, lines 45-48: ch is the counter already updated for this score
SelectSeverity(score, ch) ==
    IF score >= THRESHOLDS.EMERGENCY.score THEN "EMERGENCY"
    ELSE IF score >= THRESHOLDS.CRITICAL.score THEN "CRITICAL"
    ELSE IF ch >= THRESHOLDS.WARNING.consecutiveTicks THEN "WARNING"
    ELSE NoAlert

SuppressedOnlyOnDrop(sev, score, fired, lastFired) ==
    sev \in fired /\ score - lastFired < 0

SuppressedAnySeverity(sev, score, fired, lastFired) ==
    score - lastFired < HysteresisDelta

SuppressedOnceFired(sev, score, fired, lastFired) ==
    sev \in fired

\* evaluate, lines 53-55: the hysteresis gate
Suppressed(sev, score, fired, lastFired) ==
    LET alreadyFired == sev \in fired
        scoreDelta   == score - lastFired
    IN  alreadyFired /\ scoreDelta < HysteresisDelta

MakeAlertAlwaysAnalyze(sev, score) ==
    [sev |-> sev, score |-> score, autoAnalyze |-> TRUE]

\* evaluate, lines 58-73: the alert record (fields the engines read back)
MakeAlert(sev, score) ==
    [ sev |-> sev, score |-> score,
      autoAnalyze |-> (sev = "CRITICAL" \/ sev = "EMERGENCY") ]

\* evaluate, lines 80-82: _sendEmailAlert(alert) is started and not awaited;
\* nth numbers the alert among the session's alerts, oldest first
EmailFor(sev, score, nth) ==
    [sev |-> sev, score |-> score, nth |-> nth, status |-> "pending"]

RolledBackSendFailure(alerts) == Tail(alerts)

\* _sendEmailAlert, lines 107-109: the catch block logs and touches nothing
CaughtSendFailure(alerts) == alerts

PushAtEnd(alert, alerts) == Append(alerts, alert)

\* evaluate, line 75: this.activeAlerts.unshift(alert)
Unshift(alert, alerts) == <<alert>> \o alerts

\* AlertEngine.evaluate(score, attribution, deploymentId)
Evaluate(score) ==
    LET ch  == NextConsecutiveHigh(score, consecutiveHigh)
        sev == SelectSeverity(score, ch)
    IN  /\ consecutiveHigh' = ch
        /\ IF sev = NoAlert \/ Suppressed(sev, score, sevHistory, lastFiredScore)
           THEN /\ UNCHANGED <<lastFiredScore, lastFiredSev, activeAlerts,
                               sevHistory, emails>>
                /\ evalLog' = Append(evalLog, [score |-> score, ret |-> NoAlert])
           ELSE /\ activeAlerts' = Unshift(MakeAlert(sev, score), activeAlerts)
                /\ lastFiredScore' = score
                /\ lastFiredSev' = sev
                /\ sevHistory' = sevHistory \cup {sev}
                /\ emails' = IF sev = "CRITICAL" \/ sev = "EMERGENCY"
                             THEN Append(emails, EmailFor(sev, score,
                                                 Len(activeAlerts) + 1))
                             ELSE emails
                /\ evalLog' = Append(evalLog, [score |-> score, ret |-> sev])

\* AlertEngine.reset()
ResetAlertEngine ==
    /\ consecutiveHigh' = 0
    /\ lastFiredScore' = 0
    /\ lastFiredSev' = NoAlert
    /\ activeAlerts' = <<>>
    /\ sevHistory' = {}
    /\ evalLog' = <<>>
    /\ emails' = <<>>


\* ------------------------------------------------------------------------
\* IsolationForest.js
\* ------------------------------------------------------------------------
\* fixed-point units per 1.0 (the four decimals update reports)
SCALE == 10000

\* score() of an untrained forest: 0.5
NEUTRAL_SCORE == 5000

\* train() refuses fewer samples than this
MIN_TRAIN_SAMPLES == 10

\* scraper.mode, which decides the regime a simulated snapshot is drawn from
Modes == {"NORMAL", "DEGRADED"}

\* 2^(-avgPath/cNorm) of a trained forest for a snapshot: the trees are
\* built from Math.random(), so what a forest answers for each regime is
\* fixed only once it is built
IfScores == {4500, 7000, 9500}

Isolations == [Modes -> IfScores]

UntrainedForest ==
    [trained |-> FALSE, data |-> <<>>,
     isolation |-> [m \in Modes |-> NEUTRAL_SCORE]]

TrainAcceptsNonEmpty(data) == Len(data) >= 1

\* train, line 89
TrainAccepts(data) == Len(data) >= MIN_TRAIN_SAMPLES

\* IsolationForest.train(data) with the random trees iso; the forest after
TrainedForest(f, data, iso) ==
    IF TrainAccepts(data)
    THEN [trained |-> TRUE, data |-> data, isolation |-> iso]
    ELSE f

\* IsolationForest.score(point)
ForestScore(f, point) ==
    IF ~f.trained THEN NEUTRAL_SCORE ELSE f.isolation[point.kind]

\* constructor defaults: nTrees = 80, subsampleSize = 128
N_TREES == 80

SUBSAMPLE_SIZE == 128

\* train, line 90: Math.ceil(Math.log2(this.sub))
MAX_DEPTH == 7

\* path lengths are kept in tenths
PATH_UNIT == 10

\* IsoTree.c(n) for n = 1..12, in tenths
CTenths == <<0, 10, 12, 19, 23, 27, 30, 33, 35, 37, 39, 41>>

\* IsoTree.c(n), the leaf's correction to the path length
CPath(n) == IF n <= 1 THEN 0 ELSE CTenths[n]

\* train, line 97: cNorm = c(this.sub) = c(128), in thousandths
C_NORM == 8858

\* IsoTree.build / pathLength: the path lengths a point of the sample can
\* have below a node of depth d that holds m sample points of distinct
\* values. A split inside (mn, mx) leaves 1..m-1 points on the point's
\* side; Math.random() = 0 puts the split at mn and all m on the right.
RECURSIVE TreePaths(_, _)
TreePaths(d, m) ==
    IF d >= MAX_DEPTH \/ m <= 1
    THEN {d * PATH_UNIT + CPath(m)}
    ELSE UNION {TreePaths(d + 1, k) : k \in 1..m}

\* Math.pow(2, -r) for r = 0.00, 0.01, ... 1.30, fixed point
Pow2NegSteps ==
    << 10000,  9931,  9862,  9794,  9727,  9659,  9593,  9526,  9461,  9395,
        9330,  9266,  9202,  9138,  9075,  9013,  8950,  8888,  8827,  8766,
        8706,  8645,  8586,  8526,  8467,  8409,  8351,  8293,  8236,  8179,
        8123,  8066,  8011,  7955,  7900,  7846,  7792,  7738,  7684,  7631,
        7579,  7526,  7474,  7423,  7371,  7320,  7270,  7220,  7170,  7120,
        7071,  7022,  6974,  6926,  6878,  6830,  6783,  6736,  6690,  6643,
        6598,  6552,  6507,  6462,  6417,  6373,  6329,  6285,  6242,  6199,
        6156,  6113,  6071,  6029,  5987,  5946,  5905,  5864,  5824,  5783,
        5743,  5704,  5664,  5625,  5586,  5548,  5510,  5471,  5434,  5396,
        5359,  5322,  5285,  5249,  5212,  5176,  5141,  5105,  5070,  5035,
        5000,  4965,  4931,  4897,  4863,  4830,  4796,  4763,  4730,  4698,
        4665,  4633,  4601,  4569,  4538,  4506,  4475,  4444,  4414,  4383,
        4353,  4323,  4293,  4263,  4234,  4204,  4175,  4147,  4118,  4090,
        4061 >>

\* score, lines 110-112: 2^(-avgPath / cNorm) of a forest whose nTrees path
\* lengths for the point sum to sum (tenths); the ratio to the nearest 0.01
PathScore(sum) ==
    LET den   == N_TREES * PATH_UNIT * C_NORM
        ratio == (sum * 100000 + den \div 2) \div den
    IN  Pow2NegSteps[ratio + 1]

\* ------------------------------------------------------------------------
\* ScoringEngine.js
\* ------------------------------------------------------------------------
BASELINE_TICKS_NEEDED == 12

\* alpha = 0.32, in percent
ALPHA_PCT == 32

\* reset, line 21: this.ewma = 0.5
EWMA_INIT == SCALE \div 2

\* weight of the forest score in the combined signal, in percent
IF_WEIGHT_PCT == 62

\* capacity of scoreHistory
SCORE_HISTORY_CAP == 60

\* scores _computeTrend looks back over
TREND_WINDOW == 6

\* _computeTrend's threshold on the mean's distance from the oldest score
TREND_DELTA == 8

\* calibrate: CalibrateSteps[k] is the least x (fixed point) with
\* Math.round(100 / (1 + exp(-13 * (x - 0.61)))) >= k
CalibrateSteps ==
    << 2029, 2882, 3282, 3549, 3750, 3913, 4050, 4168, 4273, 4367,
       4452, 4531, 4604, 4672, 4736, 4796, 4853, 4908, 4960, 5010,
       5058, 5104, 5149, 5193, 5235, 5276, 5316, 5355, 5393, 5430,
       5467, 5503, 5538, 5573, 5607, 5641, 5675, 5708, 5740, 5773,
       5805, 5836, 5868, 5899, 5931, 5962, 5993, 6024, 6054, 6085,
       6116, 6147, 6177, 6208, 6239, 6270, 6302, 6333, 6365, 6396,
       6428, 6461, 6493, 6526, 6560, 6594, 6628, 6663, 6698, 6734,
       6771, 6808, 6846, 6885, 6925, 6966, 7008, 7052, 7097, 7143,
       7191, 7241, 7293, 7348, 7405, 7465, 7529, 7597, 7670, 7749,
       7834, 7928, 8033, 8151, 8288, 8451, 8652, 8919, 9319, 10172 >>

CalibrateLinear(x) == 50 + (325 * (x - 6100)) \div SCALE

CalibrateDescending(x) ==
    Cardinality({k \in 1..100 : x <= CalibrateSteps[k]})

\* ScoringEngine.calibrate(x)
Calibrate(x) ==
    LET sigmoid == Cardinality({k \in 1..100 : x >= CalibrateSteps[k]})
        capped  == IF sigmoid > 100 THEN 100 ELSE sigmoid
    IN  IF capped < 0 THEN 0 ELSE capped

EwmaNextAccumulating(ifScore, e) == (ALPHA_PCT * ifScore) \div 100 + e

\* update, line 65
EwmaNext(ifScore, e) ==
    (ALPHA_PCT * ifScore + (100 - ALPHA_PCT) * e) \div 100

\* update, line 68
Combined(ifScore, e) ==
    (IF_WEIGHT_PCT * ifScore + (100 - IF_WEIGHT_PCT) * e) \div 100

\* arr.slice(-n)
LastN(arr, n) ==
    IF Len(arr) <= n THEN arr ELSE SubSeq(arr, Len(arr) - n + 1, Len(arr))

RECURSIVE SumSeq(_)
SumSeq(arr) == IF arr = <<>> THEN 0 ELSE Head(arr) + SumSeq(Tail(arr))

ComputeTrendAtLeastDelta(sh) ==
    IF Len(sh) < 3 THEN "stable"
    ELSE LET recent == LastN(sh, TREND_WINDOW)
             n      == Len(recent)
             delta  == SumSeq(recent) - n * recent[1]
         IN  IF delta >= TREND_DELTA * n THEN "rising"
             ELSE IF delta <= -(TREND_DELTA * n) THEN "falling"
             ELSE "stable"

\* ScoringEngine._computeTrend() over the score buffer sh
ComputeTrend(sh) ==
    IF Len(sh) < 3 THEN "stable"
    ELSE LET recent == LastN(sh, TREND_WINDOW)
             n      == Len(recent)
             delta  == SumSeq(recent) - n * recent[1]   \* n * (avg - prev)
         IN  IF delta > TREND_DELTA * n THEN "rising"
             ELSE IF delta < -(TREND_DELTA * n) THEN "falling"
             ELSE "stable"

IsLearningUpToTwelve(hist) == Len(hist) <= BASELINE_TICKS_NEEDED

\* update, line 45
IsLearning(hist) == Len(hist) < BASELINE_TICKS_NEEDED

LearningResultRemaining(hist) ==
    [ score |-> 0, phase |-> "LEARNING",
      progress |-> [num |-> BASELINE_TICKS_NEEDED - Len(hist),
                    den |-> BASELINE_TICKS_NEEDED],
      ticksRemaining |-> BASELINE_TICKS_NEEDED - Len(hist) ]

\* update, lines 46-51
LearningResult(hist) ==
    [ score |-> 0, phase |-> "LEARNING",
      progress |-> [num |-> Len(hist), den |-> BASELINE_TICKS_NEEDED],
      ticksRemaining |-> BASELINE_TICKS_NEEDED - Len(hist) ]

\* update, line 57
TrainFailedResult ==
    [ score |-> 0, phase |-> "LEARNING", progress |-> [num |-> 99, den |-> 100] ]

NeedsTrainingAlways(tr) == TRUE

\* update, line 55
NeedsTraining(tr) == ~tr

\* update, line 56: history.slice(0, BASELINE_TICKS_NEEDED)
BaselineOf(hist) ==
    SubSeq(hist, 1, IF Len(hist) < BASELINE_TICKS_NEEDED THEN Len(hist)
                    ELSE BASELINE_TICKS_NEEDED)

\* ScoringEngine.update(snapshot, history), snapshot not null; iso stands for
\* the random trees train would build on this call
Update(snapshot, hist, iso) ==
    IF IsLearning(hist)
    THEN /\ result' = LearningResult(hist)
         /\ UNCHANGED <<isoForest, ewma, trained, lastScore, scoreHistory,
                        trainCalls>>
    ELSE LET training == NeedsTraining(trained)
             forest   == IF training
                         THEN TrainedForest(isoForest, BaselineOf(hist), iso)
                         ELSE isoForest
             success  == TrainAccepts(BaselineOf(hist))
         IN  /\ isoForest' = forest
             /\ trainCalls' = IF training THEN trainCalls + 1 ELSE trainCalls
             /\ IF training /\ ~success
                THEN /\ result' = TrainFailedResult
                     /\ UNCHANGED <<ewma, trained, lastScore, scoreHistory>>
                ELSE LET ifScore == ForestScore(forest, snapshot)
                         e       == EwmaNext(ifScore, ewma)
                         comb    == Combined(ifScore, e)
                         score   == Calibrate(comb)
                         sh      == Append(LastN(scoreHistory,
                                                 SCORE_HISTORY_CAP - 1), score)
                     IN  /\ trained' = TRUE
                         /\ ewma' = e
                         /\ lastScore' = score
                         /\ scoreHistory' = sh
                         /\ result' = [ score |-> score, phase |-> "SCORING",
                                        ifScore |-> ifScore, ewmaScore |-> e,
                                        combined |-> comb,
                                        trend |-> ComputeTrend(sh) ]

\* ScoringEngine.reset() / constructor
ResetScoringEngine ==
    /\ isoForest' = UntrainedForest
    /\ ewma' = EWMA_INIT
    /\ trained' = FALSE
    /\ lastScore' = 0
    /\ scoreHistory' = <<>>
    /\ trainCalls' = 0

ScoringInit ==
    /\ isoForest = UntrainedForest
    /\ ewma = EWMA_INIT
    /\ trained = FALSE
    /\ lastScore = 0
    /\ scoreHistory = <<>>
    /\ trainCalls = 0
    /\ result = [score |-> 0, phase |-> "NONE"]

\* ------------------------------------------------------------------------
\* AttributionEngine.js
\* ------------------------------------------------------------------------
\* metric values are kept in thousandths
VAL_SCALE == 1000

\* METRIC_META: key and whether a drop is the anomaly
METRIC_META ==
    << [key |-> "rate",       inverse |-> TRUE],
       [key |-> "errorRate",  inverse |-> FALSE],
       [key |-> "p99",        inverse |-> FALSE],
       [key |-> "saturation", inverse |-> FALSE] >>

\* compute refuses a baseline shorter than this
MIN_BASELINE == 10

Abs(x) == IF x < 0 THEN -x ELSE x

\* baseline.map(h => h[key])
Column(baseline, key) == [i \in 1..Len(baseline) |-> baseline[i][key]]

\* compute, line 32
MeanOf(vals) == SumSeq(vals) \div Len(vals)

\* compute, line 33
VarianceOf(vals, mean) ==
    SumSeq([i \in 1..Len(vals) |-> (vals[i] - mean) * (vals[i] - mean)])
        \div Len(vals)

\* the integer square root of n, searched between lo and hi
RECURSIVE SqrtBetween(_, _, _)
SqrtBetween(n, lo, hi) ==
    IF lo >= hi THEN lo
    ELSE LET mid == (lo + hi + 1) \div 2
         IN  IF mid * mid <= n THEN SqrtBetween(n, mid, hi)
             ELSE SqrtBetween(n, lo, mid - 1)

\* compute, line 34: Math.sqrt(variance) || 1
StdOf(variance) ==
    LET root == SqrtBetween(variance, 0, 40000)
    IN  IF root = 0 THEN VAL_SCALE ELSE root

\* toFixed(3) of the quotient num / den of two non-negative values, in
\* thousandths: rounded to the nearest
ToFixed3(num, den) == (2 * VAL_SCALE * num + den) \div (2 * den)

SeverityOfCriticalAtThree(num, den) ==
    IF num > 3 * den THEN "critical"
    ELSE IF num > 2 * den THEN "warning"
    ELSE IF num > den THEN "elevated"
    ELSE "normal"

\* compute, lines 49-52: the tier of |z| = num / den, not rounded
SeverityOf(num, den) ==
    IF 10 * num > 35 * den THEN "critical"
    ELSE IF num > 2 * den THEN "warning"
    ELSE IF num > den THEN "elevated"
    ELSE "normal"

DeviationOfDirected(inverse, diff) ==
    LET z == IF inverse THEN -diff ELSE diff
    IN  IF z < 0 THEN 0 ELSE z

\* compute, lines 39, 47 and 50: Math.abs(z) with z = inverse ? -rawZ : rawZ
\* (times std)
DeviationOf(inverse, diff) ==
    LET z == IF inverse THEN -diff ELSE diff
    IN  Abs(z)

\* compute, lines 29-53: the record of one metric (the fields read back)
MetricRecord(meta, snapshot, baseline) ==
    LET vals == Column(baseline, meta.key)
        mean == MeanOf(vals)
        std  == StdOf(VarianceOf(vals, mean))
        cur  == snapshot[meta.key]
        diff == cur - mean                      \* rawZ = diff / std
    IN  [ key      |-> meta.key,
          inverse  |-> meta.inverse,
          z        |-> ToFixed3(DeviationOf(meta.inverse, diff), std),
          rawZ     |-> IF diff < 0 THEN -ToFixed3(-diff, std)
                       ELSE ToFixed3(diff, std),
          severity |-> SeverityOf(DeviationOf(meta.inverse, diff), std) ]

\* Array.prototype.sort with (a, b) => b.z - a.z: stable, highest z first
RECURSIVE SortByZ(_)
SortByZ(recs) ==
    IF recs = <<>> THEN <<>>
    ELSE LET n      == Len(recs)
             sorted == SortByZ(SubSeq(recs, 1, n - 1))
             last   == recs[n]
             keep   == Cardinality({i \in 1..(n - 1) : sorted[i].z >= last.z})
         IN  SubSeq(sorted, 1, keep) \o <<last>> \o SubSeq(sorted, keep + 1, n - 1)

\* AttributionEngine.compute(snapshot, baseline), all fields numbers
Compute(snapshot, baseline) ==
    IF Len(baseline) < MIN_BASELINE THEN <<>>
    ELSE SortByZ([i \in 1..Len(METRIC_META) |->
                     MetricRecord(METRIC_META[i], snapshot, baseline)])

\* ------------------------------------------------------------------------
\* SessionManager.js and PrometheusScraper.js
\* ------------------------------------------------------------------------
\* capacity of the history buffer
HISTORY_CAP == 144

\* PrometheusScraper.simulateTick(): the snapshot, by regime and tick number
SimulateTick == [tick |-> tickCount + 1, kind |-> mode]

PushHistoryDropNewest(hist, snapshot) ==
    LET pushed == Append(hist, snapshot)
    IN  IF Len(pushed) > HISTORY_CAP THEN SubSeq(pushed, 1, HISTORY_CAP)
        ELSE pushed

\* tick loop, lines 57-58
PushHistory(hist, snapshot) ==
    LET pushed == Append(hist, snapshot)
    IN  IF Len(pushed) > HISTORY_CAP THEN Tail(pushed) ELSE pushed

\* snapshots of the history handed to compute as its baseline
ATTRIBUTION_WINDOW == 48

\* tick loop, line 61: history.slice(0, 48)
AttributionWindow(hist) ==
    SubSeq(hist, 1, IF Len(hist) < ATTRIBUTION_WINDOW THEN Len(hist)
                    ELSE ATTRIBUTION_WINDOW)

\* tick loop, lines 85-110: what the callback of tick id broadcasts when
\* evaluate returned ret (the alert at the head of alerts, or null)
TickBroadcasts(id, ret, alerts) ==
    <<[type |-> "METRIC_TICK", tick |-> id]>>
    \o (IF ret = NoAlert THEN <<>>
        ELSE <<[type |-> "ALERT", tick |-> id]>>
             \o (IF Head(alerts).autoAnalyze
                 THEN <<[type |-> "AI_STREAM_START", tick |-> id]>>
                 ELSE <<>>))

\* what a tick of the loop leaves alone
tickFrame == <<calVars, forestLog, buildVars, attrVars, timerOn, timerFires,
               inflight, appendOrder, evalOrder, extVars>>

\* the callback's body, lines 57-110; isos are the forests train can build
\* when this tick trains
TickBody(isos) ==
    LET snapshot == SimulateTick
        hist     == PushHistory(history, snapshot)
    IN  /\ tickCount' = tickCount + 1
        /\ history' = hist
        /\ mode' = mode
        /\ \E iso \in (IF ~IsLearning(hist) /\ NeedsTraining(trained)
                        THEN isos ELSE {isoForest.isolation}) :
               Update(snapshot, hist, iso)
        /\ attrWindow' = AttributionWindow(hist)
        /\ Evaluate(result'.score)
        /\ broadcasts' = broadcasts \o TickBroadcasts(tickCount',
                                          evalLog'[Len(evalLog')].ret,
                                          activeAlerts')

\* startSession's setInterval callback, for a snapshot that is not null
Tick ==
    /\ tickCount < MaxTicks
    /\ TickBody(Isolations)
    /\ UNCHANGED tickFrame

\* injectFault(id, failureMode) on a PrometheusScraper session
InjectFault ==
    /\ mode = "NORMAL"
    /\ mode' = "DEGRADED"
    /\ UNCHANGED <<history, tickCount, attrWindow, alertVars, scoringVars,
                   auxVars>>

\* endSession(id) followed by startSession with fresh engines and scraper
StartSession ==
    /\ tickCount > 0
    /\ \E m \in Modes : mode' = m
    /\ history' = <<>>
    /\ tickCount' = 0
    /\ ResetScoringEngine
    /\ result' = [score |-> 0, phase |-> "NONE"]
    /\ ResetAlertEngine
    /\ attrWindow' = <<>>
    /\ broadcasts' = <<>>
    /\ UNCHANGED tickFrame

SessionInit ==
    /\ history = <<>>
    /\ mode \in Modes
    /\ tickCount = 0
    /\ attrWindow = <<>>

AlertInit ==
    /\ consecutiveHigh = 0
    /\ lastFiredScore = 0
    /\ lastFiredSev = NoAlert
    /\ activeAlerts = <<>>
    /\ sevHistory = {}
    /\ evalLog = <<>>
    /\ emails = <<>>

\* calibrate has not been applied
CalibrateIdle ==
    /\ calArgs = <<>>
    /\ calRets = <<>>

\* no direct call on the forest yet
ForestIdle == forestLog = <<>>

\* train is not building trees
BuildIdle ==
    /\ treesBuilt = 0
    /\ pathSum = 0

\* compute has not been applied
AttributionIdle ==
    /\ attrSnapshot = <<>>
    /\ attrBaseline = <<>>
    /\ attribution = <<>>

\* startSession has armed the timer and no callback has started
AsyncIdle ==
    /\ timerOn = TRUE
    /\ timerFires = 0
    /\ inflight = <<>>
    /\ appendOrder = <<>>
    /\ evalOrder = <<>>
    /\ broadcasts = <<>>

\* ------------------------------------------------------------------------
\* VercelScraper.js
\* ------------------------------------------------------------------------
WINDOW_SIZE == 60

TIMEOUT_MS == 8000

\* errorRate and saturation are percentages rounded to two decimals: they
\* are kept in hundredths of a percent
PCT_UNIT == 100

\* what probe() can return, lines 86-97: a 2xx/3xx answer, an answer with
\* another status, a rejected fetch, and a fetch aborted at the timeout;
\* the answer can arrive within the millisecond the probe started in
ProbeResults ==
    { [ok |-> TRUE,  duration |-> 0],
      [ok |-> TRUE,  duration |-> 120],
      [ok |-> FALSE, duration |-> 45],
      [ok |-> FALSE, duration |-> TIMEOUT_MS] }

\* Math.round(num / den) for num >= 0, den > 0
RoundDiv(num, den) == (2 * num + den) \div (2 * den)

\* durations.sort((a, b) => a - b): position k holds the k-th smallest
SortAsc(xs) ==
    [k \in 1..Len(xs) |->
        CHOOSE v \in {xs[i] : i \in 1..Len(xs)} :
            /\ Cardinality({i \in 1..Len(xs) : xs[i] < v}) < k
            /\ Cardinality({i \in 1..Len(xs) : xs[i] <= v}) >= k]

\* line 32
PushProbe(window, probeResult) ==
    LET pushed == Append(window, probeResult)
    IN  IF Len(pushed) > WINDOW_SIZE THEN Tail(pushed) ELSE pushed

\* lines 35-57: the snapshot computed from the rolling window
WindowSnapshot(window) ==
    LET total     == Len(window)
        errors    == Cardinality({i \in 1..total : ~window[i].ok})
        timeouts  == Cardinality({i \in 1..total :
                                     window[i].duration >= TIMEOUT_MS})
        durations == SortAsc([i \in 1..total |-> window[i].duration])
        p99Index  == (total * 99) \div 100
        picked    == durations[(IF p99Index < total - 1 THEN p99Index
                                ELSE total - 1) + 1]
        p99       == IF picked = 0 THEN 100 ELSE picked
        rate      == RoundDiv(1000 * (total - errors), total)
        errorRate == IF total > 0 THEN RoundDiv(errors * 100 * PCT_UNIT, total)
                     ELSE 0
        saturation == IF total > 0
                      THEN RoundDiv(timeouts * 100 * PCT_UNIT, total) ELSE 0
    IN  [ rate       |-> IF rate > 0 THEN rate ELSE 0,
          errorRate  |-> errorRate,
          p99        |-> p99,
          saturation |-> saturation ]

\* ------------------------------------------------------------------------
\* RateLimiter.js, default settings; times in units of 500 ms
\* ------------------------------------------------------------------------
MS_PER_UNIT == 500

\* maxTokens
MAX_TOKENS == 5

\* refillRate
REFILL_RATE == 1

\* refillInterval, 12 s
REFILL_INTERVAL == 12000 \div MS_PER_UNIT

\* minGapMs, 10 s
MIN_GAP == 10000 \div MS_PER_UNIT

\* maxQueueDepth
MAX_QUEUE_DEPTH == 3

\* the delay of the drain armed when a function settles, line 81
SETTLE_DELAY == 500 \div MS_PER_UNIT

\* schedule, line 46
QueueFullAboveDepth(q) == Len(q) > MAX_QUEUE_DEPTH

QueueFull(q) == Len(q) >= MAX_QUEUE_DEPTH

\* _drain, lines 62-63: the minimum gap has not elapsed
GapOpenNever(now, last) == FALSE

GapOpen(now, last) == now - last < MIN_GAP

\* _drain, lines 55-71, called at time now on a limiter holding tok tokens,
\* queue q and the pending timers: what it leaves, and the request it
\* starts (0 when it starts none)
Drain(now, tok, q, busy, last, timers) ==
    IF busy \/ q = <<>> \/ tok < 1
    THEN [tokens |-> tok, queue |-> q, timers |-> timers, started |-> 0]
    ELSE IF GapOpen(now, last)
    THEN [tokens |-> tok, queue |-> q,
          timers |-> timers \cup {now + (MIN_GAP - (now - last))},
          started |-> 0]
    ELSE [tokens |-> tok - 1, queue |-> Tail(q), timers |-> timers,
          started |-> Head(q)]

RefillWithoutDrain(now, tok, q, busy, last, timers) ==
    [tokens |-> tok, queue |-> q, timers |-> timers, started |-> 0]

\* _startRefill, line 35: the refill callback calls _drain
RefillDrain(now, tok, q, busy, last, timers) ==
    Drain(now, tok, q, busy, last, timers)

\* the fields after a _drain call with outcome d, lines 68-74
Drained(d) ==
    /\ rlTokens' = d.tokens
    /\ rlQueue' = d.queue
    /\ rlTimers' = d.timers
    /\ IF d.started # 0
       THEN /\ rlInFlight' = TRUE
            /\ rlLastCallTime' = rlNow
            /\ rlStarts' = Append(rlStarts, [id |-> d.started, at |-> rlNow])
       ELSE UNCHANGED <<rlInFlight, rlLastCallTime, rlStarts>>

\* no probe has been made and fetchMetrics has not returned
ScrapeIdle ==
    /\ probes = <<>>
    /\ fetched = <<>>

\* new RateLimiter(), lines 13-30: a full bucket, an empty queue, the refill
\* interval armed; Date.now() is far above minGapMs
LimiterIdle ==
    /\ rlNow = MIN_GAP
    /\ rlTokens = MAX_TOKENS
    /\ rlQueue = <<>>
    /\ rlInFlight = FALSE
    /\ rlLastCallTime = 0
    /\ rlTimers = {}
    /\ rlNextRefill = MIN_GAP + REFILL_INTERVAL
    /\ rlStarts = <<>>
    /\ rlCalls = 0
    /\ rlRejected = {}

\* ScoringEngine.reset, line 21, and no score fed
FeedIdle ==
    /\ feedScore = 0
    /\ feedEwma = EWMA_INIT
    /\ feedTicks = 0

\* no score has been pushed
TrendIdle ==
    /\ trendHist = <<>>
    /\ trendRet = "stable"

\* build has not been called
TreeIdle ==
    /\ treeStack = <<>>
    /\ treeNodes = <<>>

\* no analysis stream is running
StreamIdle ==
    /\ analyzing = FALSE
    /\ streams = <<>>

\* the server loop drives the engines; the browser has no session
ClientIdle ==
    /\ session = FALSE
    /\ loopKind = "server"
    /\ deployLog = <<>>

\* the registry is empty and no interval is armed
RegistryIdle ==
    /\ sessions = {}
    /\ intervals = {}
    /\ timerSeq = 0
    /\ endRet = "none"

MoreIdle == TrendIdle /\ TreeIdle /\ StreamIdle /\ ClientIdle /\ RegistryIdle

ExtIdle == ScrapeIdle /\ LimiterIdle /\ FeedIdle /\ MoreIdle

Init ==
    /\ AlertInit /\ ScoringInit /\ SessionInit
    /\ CalibrateIdle /\ ForestIdle /\ BuildIdle /\ AttributionIdle /\ AsyncIdle
    /\ ExtIdle

\* one evaluate call with an arbitrary score
AlertEvaluate ==
    /\ Len(evalLog) < MaxEvals
    /\ \E score \in Scores : Evaluate(score)
    /\ UNCHANGED <<scoringVars, sessionVars, auxVars>>

\* a new session on the same engine
AlertReset ==
    /\ evalLog # <<>>
    /\ ResetAlertEngine
    /\ UNCHANGED <<scoringVars, sessionVars, auxVars>>

NextAlert == AlertEvaluate \/ AlertReset

SpecAlert == Init /\ [][NextAlert]_vars

NextSession == Tick \/ InjectFault \/ StartSession

SpecSession == Init /\ [][NextSession]_vars

\* the engines and the session as startSession leaves them
EnginesInit == AlertInit /\ ScoringInit /\ SessionInit

\* ------------------------------------------------------------------------
\* ScoringEngine.calibrate applied to arbitrary inputs
\* ------------------------------------------------------------------------
\* the inputs: the combined signal in steps of 0.01, with a margin on either
\* side of [0,1]
CalInputs == {k * 100 : k \in -5..115}

InitCalibrate ==
    /\ EnginesInit
    /\ calArgs \in CalInputs \X CalInputs
    /\ calRets = <<>>
    /\ ForestIdle /\ BuildIdle /\ AttributionIdle /\ AsyncIdle
    /\ ExtIdle

\* calibrate(x) for the next input
CalibrateCall ==
    /\ Len(calRets) < Len(calArgs)
    /\ calRets' = Append(calRets, Calibrate(calArgs[Len(calRets) + 1]))
    /\ UNCHANGED <<calArgs, alertVars, scoringVars, sessionVars, forestLog,
                   buildVars, attrVars, asyncVars, extVars>>

NextCalibrate == CalibrateCall

SpecCalibrate == InitCalibrate /\ [][NextCalibrate]_vars

\* ------------------------------------------------------------------------
\* IsolationForest driven directly: train, score and reset in any order
\* ------------------------------------------------------------------------
\* direct calls on one forest
MaxForestCalls == 3

\* sizes of the training sets handed to train
TrainSizes == {0, 9, 10, 12}

\* n snapshots of one regime
SampleOf(n, k) == [i \in 1..n |-> [tick |-> i, kind |-> k]]

\* forest.train(data)
ForestTrain ==
    /\ Len(forestLog) < MaxForestCalls
    /\ \E n \in TrainSizes, k \in Modes, iso \in Isolations :
          LET data == SampleOf(n, k)
          IN  /\ isoForest' = TrainedForest(isoForest, data, iso)
              /\ forestLog' = Append(forestLog,
                    [op |-> "train", arg |-> n, ret |-> TrainAccepts(data)])
    /\ UNCHANGED <<ewma, trained, lastScore, scoreHistory, result, trainCalls,
                   alertVars, sessionVars, calVars, buildVars, attrVars,
                   asyncVars, extVars>>

\* forest.score(point)
ForestScoreCall ==
    /\ Len(forestLog) < MaxForestCalls
    /\ \E k \in Modes :
          forestLog' = Append(forestLog,
              [op |-> "score", arg |-> k,
               ret |-> ForestScore(isoForest, [tick |-> 0, kind |-> k])])
    /\ UNCHANGED <<scoringVars, alertVars, sessionVars, calVars, buildVars,
                   attrVars, asyncVars, extVars>>

\* forest.reset()
ForestReset ==
    /\ Len(forestLog) < MaxForestCalls
    /\ isoForest' = UntrainedForest
    /\ forestLog' = Append(forestLog, [op |-> "reset", arg |-> 0, ret |-> 0])
    /\ UNCHANGED <<ewma, trained, lastScore, scoreHistory, result, trainCalls,
                   alertVars, sessionVars, calVars, buildVars, attrVars,
                   asyncVars, extVars>>

NextForest == ForestTrain \/ ForestScoreCall \/ ForestReset

SpecForest == Init /\ [][NextForest]_vars

\* ------------------------------------------------------------------------
\* The first twelve ticks of a healthy session, with the trees of the forest
\* built one by one
\* ------------------------------------------------------------------------
\* path lengths the twelfth snapshot can have in a tree built on the twelve
\* (_subsample keeps min(128, 12) of them)
BaselineTreePaths ==
    TreePaths(0, IF BASELINE_TICKS_NEEDED < SUBSAMPLE_SIZE
                 THEN BASELINE_TICKS_NEEDED ELSE SUBSAMPLE_SIZE)

InitBaseline == Init /\ mode = "NORMAL"

\* ticks 1..11: update answers LEARNING
BaselineLearningTick ==
    /\ tickCount < BASELINE_TICKS_NEEDED - 1
    /\ Tick

\* tick 12, train's Array.from callback: one more tree. train runs inside
\* update and nothing else of the session runs until it has returned.
BuildTree ==
    /\ tickCount = BASELINE_TICKS_NEEDED - 1
    /\ treesBuilt < N_TREES
    /\ \E p \in BaselineTreePaths : pathSum' = pathSum + p
    /\ treesBuilt' = treesBuilt + 1
    /\ UNCHANGED <<alertVars, scoringVars, sessionVars, calVars, forestLog,
                   attrVars, asyncVars, extVars>>

\* tick 12 with the forest built: the snapshot is scored by that forest
BaselineScoringTick ==
    /\ tickCount = BASELINE_TICKS_NEEDED - 1
    /\ treesBuilt = N_TREES
    /\ TickBody({iso \in [Modes -> IfScores \cup {PathScore(pathSum)}] :
                    iso["NORMAL"] = PathScore(pathSum)})
    /\ UNCHANGED tickFrame

NextBaseline == BaselineLearningTick \/ BuildTree \/ BaselineScoringTick

SpecBaseline == InitBaseline /\ [][NextBaseline]_vars

\* ------------------------------------------------------------------------
\* AttributionEngine.compute applied to arbitrary snapshots and baselines
\* ------------------------------------------------------------------------
MetricKeys == {METRIC_META[i].key : i \in 1..Len(METRIC_META)}

\* what each metric's baseline is centred on
BaseMean ==
    [rate |-> 1000000, errorRate |-> 20000, p99 |-> 100000,
     saturation |-> 50000]

\* a metric's baseline alternates this far above and below its centre: a
\* constant metric (std falls back to 1) or one of standard deviation 3
AttrDevs == {0, 3000}

\* how far the snapshot's value lies from the centre
AttrOffsets == {0, 3001, 6001, 10499, 10501, -10501}

\* lengths of the baseline window
AttrLens == {9, 10}

AlternatingBaseline(n, dev) ==
    [i \in 1..n |->
        [k \in MetricKeys |->
            BaseMean[k] + (IF i % 2 = 1 THEN dev[k] ELSE -dev[k])]]

InitAttribution ==
    /\ EnginesInit
    /\ mode = "NORMAL"
    /\ \E n \in AttrLens, dev \in [MetricKeys -> AttrDevs] :
          attrBaseline = AlternatingBaseline(n, dev)
    /\ \E off \in [MetricKeys -> AttrOffsets] :
          attrSnapshot = [k \in MetricKeys |-> BaseMean[k] + off[k]]
    /\ attribution = <<>>
    /\ CalibrateIdle /\ ForestIdle /\ BuildIdle /\ AsyncIdle
    /\ ExtIdle

\* attributionEngine.compute(snapshot, baseline)
ComputeCall ==
    /\ attribution = <<>>
    /\ attribution' = <<Compute(attrSnapshot, attrBaseline)>>
    /\ UNCHANGED <<attrSnapshot, attrBaseline, alertVars, scoringVars,
                   sessionVars, calVars, forestLog, buildVars, asyncVars,
                   extVars>>

NextAttribution == ComputeCall

SpecAttribution == InitAttribution /\ [][NextAttribution]_vars

\* ------------------------------------------------------------------------
\* The tick loop with its awaits: setInterval starts the async callback
\* every 5 s whether or not earlier callbacks have finished, and each
\* callback is suspended at await scraper.fetchMetrics() and at
\* await prisma.metricSnapshot.create()
\* ------------------------------------------------------------------------
\* callbacks the timer starts in one session
MaxAsyncTicks == 4

\* the callbacks suspended at an await
InFlight == DOMAIN inflight

\* inflight without callback id
Finished(id) == [j \in InFlight \ {id} |-> inflight[j]]

\* the timer fires: the callback starts and awaits fetchMetrics, line 51
TimerFire ==
    /\ timerOn
    /\ timerFires < MaxAsyncTicks
    /\ timerFires' = timerFires + 1
    /\ inflight' = [j \in InFlight \cup {timerFires + 1} |->
                       IF j \in InFlight THEN inflight[j]
                       ELSE [pc |-> "fetch", score |-> 0]]
    /\ UNCHANGED <<timerOn, appendOrder, evalOrder, broadcasts, alertVars,
                   scoringVars, sessionVars, calVars, forestLog, buildVars,
                   attrVars, extVars>>

\* fetchMetrics resolves with null or rejects: the callback returns,
\* lines 52-55 and 111-113
FetchFails ==
    /\ \E id \in InFlight :
          /\ inflight[id].pc = "fetch"
          /\ inflight' = Finished(id)
    /\ UNCHANGED <<timerOn, timerFires, appendOrder, evalOrder, broadcasts,
                   alertVars, scoringVars, sessionVars, calVars, forestLog,
                   buildVars, attrVars, extVars>>

\* fetchMetrics resolves with a snapshot: lines 57-61, then the callback
\* awaits the database write, line 65
FetchReturns ==
    /\ \E id \in InFlight :
          /\ inflight[id].pc = "fetch"
          /\ LET snapshot == [tick |-> id, kind |-> mode]
                 hist     == PushHistory(history, snapshot)
             IN  /\ history' = hist
                 /\ \E iso \in (IF ~IsLearning(hist) /\ NeedsTraining(trained)
                                 THEN Isolations ELSE {isoForest.isolation}) :
                        Update(snapshot, hist, iso)
                 /\ attrWindow' = AttributionWindow(hist)
          /\ inflight' = [inflight EXCEPT
                             ![id] = [pc |-> "persist", score |-> result'.score]]
          /\ appendOrder' = Append(appendOrder, id)
    /\ tickCount' = tickCount + 1
    /\ UNCHANGED <<mode, timerOn, timerFires, evalOrder, broadcasts, alertVars,
                   calVars, forestLog, buildVars, attrVars, extVars>>

\* the database write settles (a rejection is caught, lines 76-78): the
\* callback broadcasts the tick and evaluates its score, lines 85-110
PersistReturns ==
    /\ \E id \in InFlight :
          /\ inflight[id].pc = "persist"
          /\ Evaluate(inflight[id].score)
          /\ broadcasts' = broadcasts \o TickBroadcasts(id,
                                            evalLog'[Len(evalLog')].ret,
                                            activeAlerts')
          /\ evalOrder' = Append(evalOrder, id)
          /\ inflight' = Finished(id)
    /\ UNCHANGED <<timerOn, timerFires, appendOrder, scoringVars, sessionVars,
                   calVars, forestLog, buildVars, attrVars, extVars>>

\* endSession(id) of the running session; it returns true
EndSession ==
    /\ timerOn
    /\ timerOn' = FALSE
    /\ broadcasts' = Append(broadcasts,
                            [type |-> "SESSIONS_UPDATE", tick |-> 0])
    /\ UNCHANGED <<timerFires, inflight, appendOrder, evalOrder, alertVars,
                   scoringVars, sessionVars, calVars, forestLog, buildVars,
                   attrVars, extVars>>

NextAsync ==
    TimerFire \/ FetchFails \/ FetchReturns \/ PersistReturns \/ EndSession

SpecAsync == Init /\ [][NextAsync]_vars

\* ------------------------------------------------------------------------
\* VercelScraper.fetchMetrics called tick after tick
\* ------------------------------------------------------------------------
\* fetchMetrics calls of one run
MaxProbes == 4

\* rolling windows a scraper can hold when the run begins: empty, or filled
\* by 58 to 60 probes that all returned the same
WindowsAtStart ==
    {<<>>} \cup { [i \in 1..n |-> r] : n \in 58..WINDOW_SIZE, r \in ProbeResults }

InitScrape ==
    /\ AlertInit /\ ScoringInit /\ SessionInit
    /\ CalibrateIdle /\ ForestIdle /\ BuildIdle /\ AttributionIdle /\ AsyncIdle
    /\ LimiterIdle /\ FeedIdle /\ MoreIdle
    /\ probes \in WindowsAtStart
    /\ fetched = <<>>

\* fetchMetrics(), lines 29-61
FetchMetrics ==
    /\ Len(fetched) < MaxProbes
    /\ \E probeResult \in ProbeResults :
          LET window == PushProbe(probes, probeResult)
          IN  /\ probes' = window
              /\ fetched' = Append(fetched, WindowSnapshot(window))
    /\ UNCHANGED <<alertVars, scoringVars, sessionVars, calVars, forestLog,
                   buildVars, attrVars, asyncVars, limiterVars, feedVars,
                   moreVars>>

NextScrape == FetchMetrics

SpecScrape == InitScrape /\ [][NextScrape]_vars

\* ------------------------------------------------------------------------
\* RateLimiter under arbitrary schedule calls
\* ------------------------------------------------------------------------
\* the clock (it starts at MIN_GAP) runs to this time, in units of 500 ms
MaxTime == 124

\* schedule calls of one run
MaxSchedules == 8

\* how long a scheduled function runs before it settles, in units
FnDurations == {0, 3, 26}

\* schedule calls arrive on this grid, in units
ARRIVAL_GRID == 4

\* the otherwise unconstrained parts of the other components
OthersIdle ==
    /\ AlertInit /\ ScoringInit /\ SessionInit
    /\ CalibrateIdle /\ ForestIdle /\ BuildIdle /\ AttributionIdle /\ AsyncIdle

InitLimiter == OthersIdle /\ mode = "NORMAL" /\ ExtIdle

LimiterFrame ==
    UNCHANGED <<alertVars, scoringVars, sessionVars, calVars, forestLog,
                buildVars, attrVars, asyncVars, scrapeVars, feedVars,
                moreVars>>

\* schedule(fn, label), lines 44-53
Schedule ==
    /\ rlCalls < MaxSchedules
    /\ rlNow % ARRIVAL_GRID = 0
    /\ rlCalls' = rlCalls + 1
    /\ IF QueueFull(rlQueue)
       THEN /\ rlRejected' = rlRejected \cup {rlCalls'}
            /\ UNCHANGED <<rlTokens, rlQueue, rlTimers, rlInFlight,
                           rlLastCallTime, rlStarts>>
       ELSE /\ Drained(Drain(rlNow, rlTokens, Append(rlQueue, rlCalls'),
                             rlInFlight, rlLastCallTime, rlTimers))
            /\ rlRejected' = rlRejected
    /\ UNCHANGED <<rlNow, rlNextRefill>>
    /\ LimiterFrame

\* the refill interval's callback, lines 33-36
Refill ==
    /\ rlNow = rlNextRefill
    /\ rlNextRefill' = rlNextRefill + REFILL_INTERVAL
    /\ LET tok == IF rlTokens + REFILL_RATE < MAX_TOKENS
                  THEN rlTokens + REFILL_RATE ELSE MAX_TOKENS
       IN  Drained(RefillDrain(rlNow, tok, rlQueue, rlInFlight,
                               rlLastCallTime, rlTimers))
    /\ UNCHANGED <<rlNow, rlCalls, rlRejected>>
    /\ LimiterFrame

\* a setTimeout(() => this._drain(), ...) timer comes due, lines 64 and 81
DrainTimer ==
    /\ \E t \in rlTimers :
          /\ t <= rlNow
          /\ Drained(Drain(rlNow, rlTokens, rlQueue, rlInFlight,
                           rlLastCallTime, rlTimers \ {t}))
    /\ UNCHANGED <<rlNow, rlNextRefill, rlCalls, rlRejected>>
    /\ LimiterFrame

\* the started function settles (resolves or rejects), lines 74-82
Settle ==
    /\ rlInFlight
    /\ rlNow - rlLastCallTime \in FnDurations
    /\ rlInFlight' = FALSE
    /\ rlTimers' = rlTimers \cup {rlNow + SETTLE_DELAY}
    /\ UNCHANGED <<rlNow, rlTokens, rlQueue, rlLastCallTime, rlNextRefill,
                   rlStarts, rlCalls, rlRejected>>
    /\ LimiterFrame

\* 500 ms pass; the timers that are due have run
Advance ==
    /\ rlNow < MaxTime
    /\ rlNextRefill > rlNow
    /\ \A t \in rlTimers : t > rlNow
    /\ rlNow' = rlNow + 1
    /\ UNCHANGED <<rlTokens, rlQueue, rlInFlight, rlLastCallTime, rlTimers,
                   rlNextRefill, rlStarts, rlCalls, rlRejected>>
    /\ LimiterFrame

NextLimiter == Schedule \/ Refill \/ DrainTimer \/ Settle \/ Advance

SpecLimiter == InitLimiter /\ [][NextLimiter]_vars

\* ------------------------------------------------------------------------
\* RateLimiter when every started function settles and the timers keep
\* firing: schedule calls stop early enough for the run to see every
\* accepted request through
\* ------------------------------------------------------------------------
\* the last time a schedule call arrives, in units
MaxScheduleTime == 40

\* how long a function runs before it settles, in units
LiveDurations == {0, 3}

\* the longest of them
LongestLive == CHOOSE d \in LiveDurations : \A e \in LiveDurations : e <= d

\* a limiter that is new, or one whose bucket earlier load has emptied: its
\* last function started one unit ago, right after a refill, and has settled
InitLimiterLive ==
    /\ OthersIdle /\ mode = "NORMAL"
    /\ ScrapeIdle /\ FeedIdle /\ MoreIdle
    /\ rlNow = MIN_GAP
    /\ rlQueue = <<>>
    /\ rlInFlight = FALSE
    /\ rlTimers = {}
    /\ rlStarts = <<>>
    /\ rlCalls = 0
    /\ rlRejected = {}
    /\ \/ /\ rlTokens = MAX_TOKENS
          /\ rlLastCallTime = 0
          /\ rlNextRefill = MIN_GAP + REFILL_INTERVAL
       \/ /\ rlTokens = 0
          /\ rlLastCallTime = MIN_GAP - 1
          /\ rlNextRefill = MIN_GAP + REFILL_INTERVAL - 2

\* schedule(fn, label) while calls still arrive
LiveSchedule ==
    /\ rlNow <= MaxScheduleTime
    /\ Schedule

\* the started function settles
LiveSettle ==
    /\ rlNow - rlLastCallTime \in LiveDurations
    /\ Settle

\* 500 ms pass, unless the function in flight is due to settle
LiveAdvance ==
    /\ ~(rlInFlight /\ rlNow - rlLastCallTime >= LongestLive)
    /\ Advance

NextLimiterLive ==
    LiveSchedule \/ Refill \/ DrainTimer \/ LiveSettle \/ LiveAdvance

\* the interval and the timeouts fire when due, a started function settles,
\* and time passes
SpecLimiterLive ==
    /\ InitLimiterLive
    /\ [][NextLimiterLive]_vars
    /\ WF_vars(Refill)
    /\ WF_vars(DrainTimer)
    /\ WF_vars(LiveSettle)
    /\ WF_vars(LiveAdvance)

\* ------------------------------------------------------------------------
\* The EWMA of ScoringEngine.update fed a constant forest score
\* ------------------------------------------------------------------------
\* ticks fed in one run
MaxFeedTicks == 32

\* the constant forest scores: all of [0,1] at the fixed-point resolution
FeedScores == 0..SCALE

InitFeed ==
    /\ OthersIdle /\ mode = "NORMAL"
    /\ ScrapeIdle /\ LimiterIdle /\ MoreIdle
    /\ feedScore \in FeedScores
    /\ feedEwma = EWMA_INIT
    /\ feedTicks = 0

\* update, line 65, on a tick whose forest score is feedScore
FeedTick ==
    /\ feedTicks < MaxFeedTicks
    /\ feedEwma' = EwmaNext(feedScore, feedEwma)
    /\ feedTicks' = feedTicks + 1
    /\ UNCHANGED <<feedScore, alertVars, scoringVars, sessionVars, calVars,
                   forestLog, buildVars, attrVars, asyncVars, scrapeVars,
                   limiterVars, moreVars>>

NextFeed == FeedTick

SpecFeed == InitFeed /\ [][NextFeed]_vars

\* ------------------------------------------------------------------------
\* ScoringEngine's score buffer and _computeTrend under arbitrary scores
\* ------------------------------------------------------------------------
\* scores pushed in one run
MaxTrendScores == 7

\* the scores pushed: means exactly 8 and just over 8 away from the oldest
\* score occur in both directions
TrendScores == {0, 12, 13, 50, 100}

InitTrend ==
    /\ OthersIdle /\ mode = "NORMAL"
    /\ ScrapeIdle /\ LimiterIdle /\ FeedIdle
    /\ TreeIdle /\ StreamIdle /\ ClientIdle /\ RegistryIdle
    /\ TrendIdle

\* update, lines 73-80, for a calibrated score: the buffer keeps the last
\* 60 scores and the result carries _computeTrend() of the new buffer
PushScore ==
    /\ Len(trendHist) < MaxTrendScores
    /\ \E score \in TrendScores :
          LET sh == Append(LastN(trendHist, SCORE_HISTORY_CAP - 1), score)
          IN  /\ trendHist' = sh
              /\ trendRet' = ComputeTrend(sh)
    /\ UNCHANGED <<alertVars, scoringVars, sessionVars, calVars, forestLog,
                   buildVars, attrVars, asyncVars, scrapeVars, limiterVars,
                   feedVars, treeVars, streamVars, clientVars, registryVars>>

NextTrend == PushScore

SpecTrend == InitTrend /\ [][NextTrend]_vars

\* ------------------------------------------------------------------------
\* IsoTree.build on one subsample, call by call
\* ------------------------------------------------------------------------
\* IsolationForest.features
FEATURES == <<"rate", "errorRate", "p99", "saturation">>

\* a data point; the values are even so that a split can fall between two
\* neighbouring values
Point(rate, p99) ==
    [rate |-> rate, errorRate |-> 0, p99 |-> p99, saturation |-> 20]

\* n copies of point pt
Copies(n, pt) == [i \in 1..n |-> pt]

\* the subsamples train hands to build (at least 10 points): ten
\* equal points; nine equal points and one apart; eight equal points and
\* two apart in two features
TreeSamples ==
    { Copies(10, Point(0, 0)),
      Copies(9, Point(0, 0)) \o <<Point(2, 0)>>,
      Copies(8, Point(0, 0)) \o <<Point(2, 0), Point(4, 2)>> }

\* build, lines 44-45: Math.min / Math.max of the feature over the partition
MinOf(data, feat) ==
    CHOOSE v \in {data[i][feat] : i \in 1..Len(data)} :
        \A i \in 1..Len(data) : v <= data[i][feat]

MaxOf(data, feat) ==
    CHOOSE v \in {data[i][feat] : i \in 1..Len(data)} :
        \A i \in 1..Len(data) : v >= data[i][feat]

\* build, line 49: mn + Math.random() * (mx - mn) with Math.random() in
\* [0, 1): any value from mn (Math.random() = 0) to below mx
SplitValues(mn, mx) == mn..(mx - 1)

\* data.filter(x => x[feat] < split) and data.filter(x => x[feat] >= split)
FilterBelow(data, feat, split) ==
    SelectSeq(data, LAMBDA x : x[feat] < split)

FilterFrom(data, feat, split) ==
    SelectSeq(data, LAMBDA x : x[feat] >= split)

\* build, line 38: the call returns a leaf at once
LeafAtOnceBySize(data, depth) == Len(data) <= 1

LeafAtOnce(data, depth) == depth >= MAX_DEPTH \/ Len(data) <= 1

LeafNode(data, depth, feat, mn, mx) ==
    [leaf |-> TRUE, depth |-> depth, size |-> Len(data), feature |-> feat,
     mn |-> mn, mx |-> mx, splitVal |-> 0, left |-> 0, right |-> 0]

InitTree ==
    /\ OthersIdle /\ mode = "NORMAL"
    /\ ScrapeIdle /\ LimiterIdle /\ FeedIdle
    /\ TrendIdle /\ StreamIdle /\ ClientIdle /\ RegistryIdle
    /\ \E sample \in TreeSamples :
          treeStack = <<[data |-> sample, depth |-> 0]>>
    /\ treeNodes = <<>>

\* one call of build(data, features, maxDepth, depth), lines 37-55: the
\* node it makes, and the calls for its left and right partitions
Build ==
    /\ treeStack # <<>>
    /\ LET call  == Head(treeStack)
           data  == call.data
           depth == call.depth
       IN  IF LeafAtOnce(data, depth)
           THEN /\ treeNodes' = Append(treeNodes,
                                       LeafNode(data, depth, "none", 0, 0))
                /\ treeStack' = Tail(treeStack)
           ELSE \E f \in 1..Len(FEATURES) :
                  LET feat == FEATURES[f]
                      mn   == MinOf(data, feat)
                      mx   == MaxOf(data, feat)
                  IN  IF mn >= mx
                      THEN /\ treeNodes' = Append(treeNodes,
                                       LeafNode(data, depth, feat, mn, mx))
                           /\ treeStack' = Tail(treeStack)
                      ELSE \E split \in SplitValues(mn, mx) :
                             LET left  == FilterBelow(data, feat, split)
                                 right == FilterFrom(data, feat, split)
                             IN  /\ treeNodes' = Append(treeNodes,
                                       [leaf |-> FALSE, depth |-> depth,
                                        size |-> Len(data), feature |-> feat,
                                        mn |-> mn, mx |-> mx,
                                        splitVal |-> split,
                                        left |-> Len(left),
                                        right |-> Len(right)])
                                 /\ treeStack' =
                                       << [data |-> left, depth |-> depth + 1],
                                          [data |-> right, depth |-> depth + 1] >>
                                       \o Tail(treeStack)
    /\ UNCHANGED <<alertVars, scoringVars, sessionVars, calVars, forestLog,
                   buildVars, attrVars, asyncVars, scrapeVars, limiterVars,
                   feedVars, trendVars, streamVars, clientVars, registryVars>>

NextTree == Build

SpecTree == InitTree /\ [][NextTree]_vars

\* ------------------------------------------------------------------------
\* SessionManager: analysis streams of one active session
\* ------------------------------------------------------------------------
MaxStreamEvals == 3

\* scores the scoring stage of a tick hands to evaluate
StreamScores == {0, 60, 72, 90}

\* the alert stage of a tick, lines 90-110: evaluate, and streamAnalysis
\* for an alert with autoAnalyze; scoringEngine.lastScore is the tick's score
StreamTick ==
    /\ Len(evalLog) < MaxStreamEvals
    /\ \E score \in StreamScores :
          /\ Evaluate(score)
          /\ lastScore' = score
    /\ streams' =
          IF /\ evalLog'[Len(evalLog')].ret # NoAlert
             /\ activeAlerts'[1].autoAnalyze
          THEN Append(streams, "auto")
          ELSE streams
    /\ UNCHANGED <<isoForest, ewma, trained, scoreHistory, result, trainCalls,
                   sessionVars, calVars, forestLog, buildVars, attrVars,
                   asyncVars, scrapeVars, limiterVars, feedVars, trendVars,
                   treeVars, analyzing, clientVars, registryVars>>

\* triggerManualAnalysis(id) of an ACTIVE session, lines 149-188, when it
\* returns true
TriggerManualAnalysis ==
    /\ lastScore >= 5
    /\ ~analyzing
    /\ analyzing' = TRUE
    /\ streams' = Append(streams, "manual")
    /\ UNCHANGED <<alertVars, scoringVars, sessionVars, calVars, forestLog,
                   buildVars, attrVars, asyncVars, scrapeVars, limiterVars,
                   feedVars, trendVars, treeVars, clientVars, registryVars>>

\* streams without its i-th element
RemoveAt(seq, i) == SubSeq(seq, 1, i - 1) \o SubSeq(seq, i + 1, Len(seq))

\* a stream ends: onDone / onError of streamAnalysis; only the callbacks of
\* triggerManualAnalysis clear s.analyzing
StreamEnds ==
    /\ \E i \in 1..Len(streams) :
          /\ streams' = RemoveAt(streams, i)
          /\ analyzing' = IF streams[i] = "manual" THEN FALSE ELSE analyzing
    /\ UNCHANGED <<alertVars, scoringVars, sessionVars, calVars, forestLog,
                   buildVars, attrVars, asyncVars, scrapeVars, limiterVars,
                   feedVars, trendVars, treeVars, clientVars, registryVars>>

NextStream == StreamTick \/ TriggerManualAnalysis \/ StreamEnds

SpecStream == Init /\ [][NextStream]_vars

\* ------------------------------------------------------------------------
\* useDeployment: the browser's tick loop, next to the server's
\* ------------------------------------------------------------------------
MaxLoopTicks == 15

MaxDeploys == 3

\* tick, line 301: scoring runs when tickN is a multiple of this
SCORE_EVERY == 3

LoopKinds == {"server", "client"}

InitLoops ==
    /\ OthersIdle
    /\ ScrapeIdle /\ LimiterIdle /\ FeedIdle
    /\ TrendIdle /\ TreeIdle /\ StreamIdle /\ RegistryIdle
    /\ session = FALSE
    /\ loopKind \in LoopKinds
    /\ deployLog = <<>>

\* what the browser's actions leave alone
clientFrame == <<calVars, forestLog, buildVars, attrVars, asyncVars,
                 scrapeVars, limiterVars, feedVars, trendVars, treeVars,
                 streamVars, registryVars, loopKind>>

DeployUnguarded == FALSE

\* deploy, line 355: if (session) return
DeployReturnsEarly == session

\* useDeployment.deploy(type, service, failureMode), lines 354-370
Deploy ==
    /\ loopKind = "client"
    /\ Len(deployLog) < MaxDeploys
    /\ deployLog' = Append(deployLog, [active |-> session,
                                       alerted |-> activeAlerts # <<>>])
    /\ IF DeployReturnsEarly
       THEN UNCHANGED <<alertVars, scoringVars, sessionVars, session>>
       ELSE /\ ResetScoringEngine
            /\ ResetAlertEngine
            /\ history' = <<>>
            /\ tickCount' = 0
            /\ \E m \in Modes : mode' = m
            /\ result' = [score |-> 0, phase |-> "NONE"]
            /\ attrWindow' = <<>>
            /\ session' = TRUE
    /\ UNCHANGED clientFrame

\* useDeployment.stopDeploy(): the store's endSession
StopDeploy ==
    /\ loopKind = "client"
    /\ session
    /\ session' = FALSE
    /\ UNCHANGED <<alertVars, scoringVars, sessionVars, deployLog,
                   clientFrame>>

EvaluatesOnAnyPhase(res) == TRUE

\* tick, line 306: if (result.phase !== 'SCORING') return
EvaluatesOn(res) == res.phase = "SCORING"

\* useDeployment.tick, lines 290-316, run by the interval while a session
\* is set
ClientTick ==
    /\ loopKind = "client"
    /\ session
    /\ tickCount < MaxLoopTicks
    /\ LET snapshot == SimulateTick
           hist     == PushHistory(history, snapshot)
       IN  /\ tickCount' = tickCount + 1
           /\ history' = hist
           /\ mode' = mode
           /\ IF (tickCount + 1) % SCORE_EVERY # 0
              THEN UNCHANGED <<scoringVars, alertVars, attrWindow>>
              ELSE /\ \E iso \in (IF ~IsLearning(hist) /\ NeedsTraining(trained)
                                  THEN Isolations ELSE {isoForest.isolation}) :
                         Update(snapshot, hist, iso)
                   /\ attrWindow' = AttributionWindow(hist)
                   /\ IF EvaluatesOn(result')
                      THEN Evaluate(result'.score)
                      ELSE UNCHANGED alertVars
    /\ UNCHANGED <<session, deployLog, clientFrame>>

\* the server's setInterval callback, for a snapshot that is not null
ServerTick ==
    /\ loopKind = "server"
    /\ tickCount < MaxLoopTicks
    /\ TickBody(Isolations)
    /\ UNCHANGED tickFrame

NextLoops == Deploy \/ StopDeploy \/ ClientTick \/ ServerTick

SpecLoops == InitLoops /\ [][NextLoops]_vars

\* ------------------------------------------------------------------------
\* SessionManager: the registry of sessions and their interval timers
\* ------------------------------------------------------------------------
\* setInterval calls in one run of the server
MaxTimers == 4

\* the ids startSession and endSession are called with
SessionIds == {"s1", "s2", "s3"}

\* sessions.get(id): the entries registered under id (none or one)
EntriesOf(id) == {s \in sessions : s.id = id}

\* sessions.set(id, entry): a Map keeps one entry per key
MapSet(id, entry) == (sessions \ EntriesOf(id)) \cup {entry}

\* startSession({ id, ... }), lines 22-133: arms a new interval and
\* registers the session under id, whether or not id is registered already
RegistryStart ==
    /\ timerSeq < MaxTimers
    /\ \E id \in SessionIds :
          /\ timerSeq' = timerSeq + 1
          /\ intervals' = intervals \cup {timerSeq + 1}
          /\ sessions' = MapSet(id, [id |-> id, interval |-> timerSeq + 1])
          /\ endRet' = "none"
    /\ UNCHANGED <<alertVars, scoringVars, sessionVars, calVars, forestLog,
                   buildVars, attrVars, asyncVars, scrapeVars, limiterVars,
                   feedVars, trendVars, treeVars, streamVars, clientVars>>

\* endSession(id), lines 135-146
RegistryEnd ==
    /\ \E id \in SessionIds :
          IF EntriesOf(id) = {}
          THEN /\ endRet' = "false"
               /\ UNCHANGED <<sessions, intervals>>
          ELSE /\ intervals' = intervals \ {s.interval : s \in EntriesOf(id)}
               /\ sessions' = sessions \ EntriesOf(id)
               /\ endRet' = "true"
    /\ UNCHANGED <<timerSeq, alertVars, scoringVars, sessionVars, calVars,
                   forestLog, buildVars, attrVars, asyncVars, scrapeVars,
                   limiterVars, feedVars, trendVars, treeVars, streamVars,
                   clientVars>>

NextRegistry == RegistryStart \/ RegistryEnd

SpecRegistry == Init /\ [][NextRegistry]_vars

\* ------------------------------------------------------------------------
\* AlertEngine with its email notifications: each send settles, delivered
\* or rejected, at any time after the evaluate call that started it
\* ------------------------------------------------------------------------
\* evaluate calls per session
MaxNotifyEvals == 3

\* scores handed to evaluate: one per tier
NotifyScores == {49, 60, 72, 86, 96}

\* alertEngine.evaluate(score, ...)
NotifyEvaluate ==
    /\ Len(evalLog) < MaxNotifyEvals
    /\ \E score \in NotifyScores : Evaluate(score)
    /\ UNCHANGED <<scoringVars, sessionVars, auxVars>>

\* sendAlertEmail resolves, line 106
EmailSent ==
    /\ \E i \in 1..Len(emails) :
          /\ emails[i].status = "pending"
          /\ emails' = [emails EXCEPT ![i].status = "sent"]
    /\ UNCHANGED <<consecutiveHigh, lastFiredScore, lastFiredSev, activeAlerts,
                   sevHistory, evalLog, scoringVars, sessionVars, auxVars>>

\* sendAlertEmail rejects, lines 106-109
EmailRejected ==
    /\ \E i \in 1..Len(emails) :
          /\ emails[i].status = "pending"
          /\ emails' = [emails EXCEPT ![i].status = "failed"]
    /\ activeAlerts' = CaughtSendFailure(activeAlerts)
    /\ UNCHANGED <<consecutiveHigh, lastFiredScore, lastFiredSev, sevHistory,
                   evalLog, scoringVars, sessionVars, auxVars>>

NextNotify == NotifyEvaluate \/ EmailSent \/ EmailRejected

SpecNotify == Init /\ [][NextNotify]_vars

\* ------------------------------------------------------------------------
\* Properties of AlertEngine.evaluate, stated over the session's call log
\* ------------------------------------------------------------------------
Calls == 1..Len(evalLog)

\* the call before i that most recently fired severity S, 0 when none did
LastFireOf(S, i) ==
    LET js == {j \in 1..(i - 1) : evalLog[j].ret = S}
    IN  IF js = {} THEN 0 ELSE CHOOSE j \in js : \A k \in js : k <= j

\* the call before i that most recently fired any alert, 0 when none did
LastFire(i) ==
    LET js == {j \in 1..(i - 1) : evalLog[j].ret # NoAlert}
    IN  IF js = {} THEN 0 ELSE CHOOSE j \in js : \A k \in js : k <= j

\* call i and the two calls before it all had a score of at least 50
ThreeHigh(i) ==
    /\ i >= 3
    /\ \A k \in (i - 2)..i : evalLog[k].score >= 50

\* the tier the thresholds of the header select for call i
TierAt(i) ==
    IF evalLog[i].score >= 86 THEN "EMERGENCY"
    ELSE IF evalLog[i].score >= 72 THEN "CRITICAL"
    ELSE IF ThreeHigh(i) THEN "WARNING"
    ELSE NoAlert

\* calls i-2, i-1, i all scored in [50,72) and WARNING had not fired before
WarningWindow(i) ==
    /\ i >= 3
    /\ \A k \in (i - 2)..i : evalLog[k].score >= 50 /\ evalLog[k].score < 72
    /\ LastFireOf("WARNING", i - 2) = 0

\* the window opens the session or directly follows a score below 50
WindowFromLow(i) ==
    i = 3 \/ evalLog[i - 3].score < 50

WarningOnThirdOnly(i) ==
    /\ evalLog[i - 2].ret # "WARNING"
    /\ evalLog[i - 1].ret # "WARNING"
    /\ evalLog[i].ret = "WARNING"

\* C1: whenever severity S fires and S has fired before in the session, the
\* new alert's score is at least 10 above the score of the most recent
\* previous alert of severity S.
C1_PerSeverityHysteresis ==
    \A i \in Calls :
        LET S == evalLog[i].ret
            j == LastFireOf(S, i)
        IN  (S # NoAlert /\ j # 0) =>
                evalLog[i].score >= evalLog[j].score + 10

\* C2: if the severity selected for the current score has already fired and
\* the score is at least 10 above the score at which that severity last
\* fired, evaluate returns a new alert of that severity.
C2_DeltaTenRefires ==
    \A i \in Calls :
        LET S == TierAt(i)
            j == LastFireOf(S, i)
        IN  (S # NoAlert /\ j # 0 /\ evalLog[i].score >= evalLog[j].score + 10)
                => evalLog[i].ret = S

\* C3 (as stated): WARNING is returned only when the score and the two
\* preceding scores are all >= 50, and in a session where WARNING has not
\* fired, any three consecutive evaluations in [50,72) produce exactly one
\* WARNING, on the third.
C3_WarningGateOriginal ==
    /\ \A i \in Calls : evalLog[i].ret = "WARNING" => ThreeHigh(i)
    /\ \A i \in Calls : WarningWindow(i) => WarningOnThirdOnly(i)

\* C3 (amended): WARNING is returned only when the score and the two
\* preceding scores are all >= 50, and in a session where WARNING has not
\* fired, three consecutive evaluations in [50,72) that open the session or
\* directly follow a score below 50 produce exactly one WARNING, on the
\* third.
C3_WarningGate ==
    /\ \A i \in Calls : evalLog[i].ret = "WARNING" => ThreeHigh(i)
    /\ \A i \in Calls :
          (WarningWindow(i) /\ WindowFromLow(i)) => WarningOnThirdOnly(i)

C3_Witness ==
    /\ Len(evalLog) = 4
    /\ evalLog[1].score = 49
    /\ WarningWindow(4)
    /\ evalLog[4].ret = "WARNING"
    /\ activeAlerts # <<>>
    /\ activeAlerts[1].sev = "WARNING"

\* C4: every returned alert is EMERGENCY iff score >= 86, CRITICAL iff
\* 72 <= score < 86, WARNING iff 50 <= score < 72, and every score below 50
\* returns null.
C4_HighestTier ==
    \A i \in Calls :
        LET s == evalLog[i].score
            r == evalLog[i].ret
        IN  /\ s < 50 => r = NoAlert
            /\ r # NoAlert =>
                  /\ (r = "EMERGENCY") <=> (s >= 86)
                  /\ (r = "CRITICAL") <=> (s >= 72 /\ s < 86)
                  /\ (r = "WARNING") <=> (s >= 50 /\ s < 72)

C4_Witness ==
    /\ Len(evalLog) = 4
    /\ evalLog[1].ret = "EMERGENCY"
    /\ evalLog[2].ret = "CRITICAL"
    /\ evalLog[3].ret = "WARNING"
    /\ evalLog[4].score = 49 /\ evalLog[4].ret = NoAlert

\* C5: when the severity selected for the current score has not yet fired
\* in the session, evaluate fires it on that call, whatever other
\* severities fired before and at what scores.
C5_NewSeverityFires ==
    \A i \in Calls :
        LET S == TierAt(i)
        IN  (S # NoAlert /\ LastFireOf(S, i) = 0) => evalLog[i].ret = S

C5_Witness ==
    /\ Len(evalLog) = 4
    /\ evalLog[3].score = 71 /\ evalLog[3].ret = "WARNING"
    /\ evalLog[4].score = 72 /\ evalLog[4].ret = "CRITICAL"

C7_RefireNeedsDrop ==
    \A i \in Calls :
        LET S == evalLog[i].ret
            j == LastFireOf(S, i)
        IN  (S # NoAlert /\ j # 0) =>
                \E k \in (j + 1)..(i - 1) :
                    evalLog[k].score <= evalLog[j].score - 15

\* ------------------------------------------------------------------------
\* Properties of ScoringEngine.update under the session tick loop
\* ------------------------------------------------------------------------
\* the first BASELINE_TICKS_NEEDED snapshots the session's scraper produced
IsSessionBaseline(data) ==
    /\ Len(data) = 12
    /\ \A i \in 1..12 : data[i].tick = i

C10_LearningReportsProgress ==
    [][ (tickCount' = tickCount + 1 /\ Len(history') < 12) =>
            /\ result'.phase = "LEARNING"
            /\ result'.score = 0
            /\ result'.progress = [num |-> Len(history'), den |-> 12]
            /\ UNCHANGED <<isoForest, trainCalls, trained, ewma, lastScore,
                           scoreHistory>>
            /\ ~isoForest'.trained
      ]_vars

C10_Witness ==
    /\ tickCount = 11
    /\ Len(history) = 11
    /\ result.phase = "LEARNING"
    /\ result.progress = [num |-> 11, den |-> 12]
    /\ ~trained
    /\ trainCalls = 0

\* C11: every result update returns carries an integer score in 0..100, and
\* lastScore stays in 0..100, whatever the phase, snapshot and history.
C11_ScoreInRange ==
    /\ result.score \in 0..100
    /\ lastScore \in 0..100

\* a SCORING update near the top of the range, after LEARNING ones at 0
C11_Witness ==
    /\ result.phase = "SCORING"
    /\ result.score >= 95
    /\ lastScore = result.score
    /\ result.combined > CalibrateSteps[95]
    /\ \E i \in Calls : evalLog[i].score = 0

\* C12: after twelve near-identical baseline snapshots, the score returned
\* for the twelfth tick (a baseline point scored by the forest trained on
\* those twelve, subsampleSize 128) is below 15.
C12_BaselineScoresLow ==
    (tickCount = BASELINE_TICKS_NEEDED /\ result.phase = "SCORING")
        => result.score < 15

\* C13: calibrate(0.5) is a single-digit risk (at most 9), calibrate(0.70)
\* is about 50 (within 5 of it) and calibrate(0.85) is at least 80.
C13_CalibrationAnchors ==
    \A i \in 1..Len(calRets) :
        /\ calArgs[i] = 5000 => calRets[i] <= 9
        /\ calArgs[i] = 7000 => calRets[i] \in 45..55
        /\ calArgs[i] = 8500 => calRets[i] >= 80

LastForestCall == forestLog'[Len(forestLog')]

\* C15: train with fewer than 10 points returns false and leaves the forest
\* as it was, an untrained one untrained with its tree list unchanged; score
\* on an untrained forest (never trained, after a failed train, after reset)
\* returns exactly 0.5.
C15_ShortTrainAndNeutralScore ==
    [][ /\ (LastForestCall.op = "train" /\ LastForestCall.arg < 10)
              => /\ LastForestCall.ret = FALSE
                 /\ isoForest' = isoForest
                 /\ ~isoForest.trained => ~isoForest'.trained
        /\ (LastForestCall.op = "score" /\ ~isoForest.trained)
              => LastForestCall.ret = NEUTRAL_SCORE ]_vars

\* a failed train on a fresh forest, then a score of 0.5
C15_Witness ==
    /\ Len(forestLog) = 2
    /\ forestLog[1] = [op |-> "train", arg |-> 9, ret |-> FALSE]
    /\ forestLog[2].op = "score"
    /\ forestLog[2].ret = NEUTRAL_SCORE
    /\ isoForest = UntrainedForest

\* the list compute returned is in non-increasing order of z
SortedByZ(list) ==
    \A i \in 1..(Len(list) - 1) : list[i].z >= list[i + 1].z

C17_BaselineCapturedOnce ==
    [][ /\ \A i \in 1..Len(attrWindow') : attrWindow'[i].tick = i
        /\ (Len(attrWindow) = ATTRIBUTION_WINDOW /\ tickCount' > tickCount)
              => attrWindow' = attrWindow ]_vars

\* C18: after every tick the history buffer holds at most 144 snapshots, and
\* exactly the most recent min(n, 144) of the n appended, in append order.
C18_HistoryMostRecent ==
    LET n == tickCount
        k == IF n < HISTORY_CAP THEN n ELSE HISTORY_CAP
    IN  /\ Len(history) <= HISTORY_CAP
        /\ Len(history) = k
        /\ \A i \in 1..k : history[i].tick = n - k + i

\* two snapshots have been evicted from a full buffer
C18_Witness ==
    /\ tickCount = HISTORY_CAP + 2
    /\ Len(history) = HISTORY_CAP
    /\ history[1].tick = 3
    /\ history[HISTORY_CAP].tick = HISTORY_CAP + 2

\* the start numbers in order are strictly increasing
InStartOrder(order) ==
    \A i \in 1..(Len(order) - 1) : order[i] < order[i + 1]

\* C19: snapshots are appended to history, passed to update and passed to
\* evaluate in the order in which their timer ticks started, and no two
\* ticks of a session interleave their fetch / score / persist / evaluate
\* steps, also when a fetch or a database write outlasts the tick interval.
C19_TicksInArrivalOrder ==
    /\ InStartOrder(appendOrder)
    /\ InStartOrder(evalOrder)
    /\ Cardinality(InFlight) <= 1

\* C20: after endSession has returned true no tick of the session appends
\* to the history, calls update or evaluate, or broadcasts METRIC_TICK or
\* ALERT, a tick that was in flight at the time included.
C20_NoTickAfterEnd ==
    [][ ~timerOn =>
          /\ appendOrder' = appendOrder
          /\ history' = history
          /\ result' = result
          /\ evalOrder' = evalOrder
          /\ evalLog' = evalLog
          /\ broadcasts' = broadcasts ]_vars

\* the sends that have been rejected
FailedEmails(es) == {i \in 1..Len(es) : es[i].status = "failed"}

\* the alert of send e is in the log where evaluate put it
AlertKept(e, alerts) ==
    /\ e.nth <= Len(alerts)
    /\ alerts[Len(alerts) - e.nth + 1] = MakeAlert(e.sev, e.score)

\* C21: when evaluate fires a CRITICAL or EMERGENCY alert and sendAlertEmail
\* rejects, evaluate has returned the alert, the alert stays in activeAlerts
\* (at the head while no later alert has fired), and the rejection leaves
\* activeAlerts, sevHistory and lastFiredScore as the fire set them.
C21_FiringIsFinal ==
    [][ /\ \A i \in FailedEmails(emails') :
              /\ AlertKept(emails'[i], activeAlerts')
              /\ emails'[i].sev \in sevHistory'
              /\ \E c \in 1..Len(evalLog') :
                    evalLog'[c] = [score |-> emails'[i].score,
                                   ret |-> emails'[i].sev]
        /\ FailedEmails(emails') # FailedEmails(emails)
              => /\ activeAlerts' = activeAlerts
                 /\ sevHistory' = sevHistory
                 /\ lastFiredScore' = lastFiredScore
                 /\ lastFiredSev' = lastFiredSev ]_vars

\* a CRITICAL alert whose email was rejected is still the head of the log
C21_Witness ==
    /\ Len(emails) = 1
    /\ emails[1] = [sev |-> "CRITICAL", score |-> 72, nth |-> 1,
                    status |-> "failed"]
    /\ activeAlerts[1] = MakeAlert("CRITICAL", 72)
    /\ lastFiredScore = 72
    /\ "CRITICAL" \in sevHistory

\* the ranges of a snapshot: rate >= 0, 0 <= errorRate <= 50, p99 >= 0,
\* 0 <= saturation <= 100
SnapshotInRange(snap) ==
    /\ snap.rate >= 0
    /\ snap.errorRate >= 0 /\ snap.errorRate <= 50 * PCT_UNIT
    /\ snap.p99 >= 0
    /\ snap.saturation >= 0 /\ snap.saturation <= 100 * PCT_UNIT

\* C22: every snapshot a metric source returns from fetchMetrics has
\* rate >= 0, 0 <= errorRate <= 50, p99 >= 0 and 0 <= saturation <= 100
\* (here: the snapshots VercelScraper.fetchMetrics returns).
C22_SnapshotsInRange ==
    \A i \in 1..Len(fetched) : SnapshotInRange(fetched[i])

\* C23: in the session tick loop the raw history is appended on every tick,
\* while the scoring pipeline, attribution and alert evaluation run only on
\* every 3rd tick (tick index divisible by 3).
C23_ScoresEveryThirdTick ==
    [][ tickCount' = tickCount + 1
          => /\ history' = PushHistory(history, history'[Len(history')])
             /\ tickCount' % 3 # 0
                   => /\ result' = result
                      /\ scoreHistory' = scoreHistory
                      /\ attrWindow' = attrWindow
                      /\ evalLog' = evalLog ]_vars

\* the request numbers of the functions started so far
StartedIds(starts) == {starts[i].id : i \in 1..Len(starts)}

\* the request numbers waiting in the queue
QueuedIds(q) == {q[i] : i \in 1..Len(q)}

\* C24: RateLimiter with default settings never holds more than 3 waiting
\* requests: a schedule call made while 3 requests are queued is rejected,
\* its function is never run, and the queue is left unchanged.
C24_QueueDepthThree ==
    [][ /\ Len(rlQueue') <= 3
        /\ rlCalls' # rlCalls /\ Len(rlQueue) = 3
              => /\ rlCalls' \in rlRejected'
                 /\ rlQueue' = rlQueue
                 /\ rlStarts' = rlStarts
        /\ rlRejected' \cap (StartedIds(rlStarts') \cup QueuedIds(rlQueue')) = {}
      ]_vars

\* a call was rejected on a full queue, and the three queued requests are
\* still waiting behind the function in flight
C24_Witness ==
    /\ rlRejected # {}
    /\ Len(rlQueue) = 3
    /\ rlInFlight
    /\ Len(rlStarts) >= 2

\* 60 seconds, in units
WINDOW_60S == 60000 \div MS_PER_UNIT

\* C25: RateLimiter with default settings starts at most 5 scheduled
\* functions in any 60-second window: the start five starts after any
\* start is at least 60 seconds later.
C25_FivePerMinute ==
    \A i \in 1..Len(rlStarts) :
        i + 5 <= Len(rlStarts)
            => rlStarts[i + 5].at - rlStarts[i].at >= WINDOW_60S

\* C26: any two consecutive starts of scheduled functions are at least
\* minGapMs (10 s) apart, and a function is never started while a
\* previously started one has not settled.
C26_GapAndSerial ==
    [][ rlStarts' # rlStarts
          => /\ ~rlInFlight
             /\ Len(rlStarts') = Len(rlStarts) + 1
             /\ rlStarts # <<>>
                   => rlNow - rlStarts[Len(rlStarts)].at >= 10000 \div MS_PER_UNIT
      ]_vars

\* a third function has started while a request was already waiting, after
\* the two before it settled
C26_Witness ==
    /\ Len(rlStarts) = 3
    /\ rlInFlight
    /\ rlQueue # <<>>
    /\ rlStarts[3].at - rlStarts[2].at >= MIN_GAP

\* the tolerance, in fixed-point units: the resolution at which the EWMA
\* is kept stops it within 4 units (0.0004) of the score fed
EWMA_TOL == 4

\* ticks after which the EWMA fed from 0.5 is within the tolerance
TICKS_TO_SETTLE == 24

\* C27: starting from 0.5, repeatedly feeding a constant forest score s in
\* [0,1] to ewma' = 0.32*s + 0.68*ewma moves the EWMA monotonically toward
\* s (never away from it, never across it, strictly closer while outside
\* the tolerance) and within the tolerance of s after finitely many ticks.
C27_EwmaConverges ==
    [][ feedTicks' = feedTicks + 1
          => /\ Abs(feedScore - feedEwma') <= Abs(feedScore - feedEwma)
             /\ feedEwma <= feedScore => feedEwma' <= feedScore
             /\ feedEwma >= feedScore => feedEwma' >= feedScore
             /\ Abs(feedScore - feedEwma) > EWMA_TOL
                   => Abs(feedScore - feedEwma') < Abs(feedScore - feedEwma)
             /\ feedTicks' >= TICKS_TO_SETTLE
                   => Abs(feedScore - feedEwma') <= EWMA_TOL
      ]_vars

\* fed 1.0 from 0.5, the EWMA has risen to within the tolerance of 1.0
C27_Witness ==
    /\ feedScore = SCALE
    /\ feedTicks = MaxFeedTicks
    /\ feedEwma > EWMA_INIT
    /\ SCALE - feedEwma <= EWMA_TOL

\* the length of the run of most recent evaluate calls that scored >= 50
TrailingHigh ==
    LET lows == {i \in Calls : evalLog[i].score < 50}
    IN  IF lows = {} THEN Len(evalLog)
        ELSE Len(evalLog) - (CHOOSE i \in lows : \A k \in lows : k <= i)

\* C28: after every evaluate call, consecutiveHigh equals the length of the
\* longest run of most recent evaluate calls of the session whose scores
\* were all >= 50 (0 when the latest score is below 50), whether those
\* calls fired, were suppressed, or selected CRITICAL or EMERGENCY.
C28_CounterIsTrailingRun == consecutiveHigh = TrailingHigh

\* a run of three: a score that is gated, one that fires EMERGENCY and one
\* that hysteresis suppresses, after a low score
C28_Witness ==
    /\ evalLog = << [score |-> 49, ret |-> NoAlert],
                    [score |-> 60, ret |-> NoAlert],
                    [score |-> 86, ret |-> "EMERGENCY"],
                    [score |-> 90, ret |-> NoAlert] >>
    /\ consecutiveHigh = 3

\* C29: each evaluate call adds at most one alert: when it returns an alert,
\* that alert is placed at index 0 of activeAlerts, the log grows by exactly
\* one and sevHistory and lastFiredScore are updated to that alert's
\* severity and score; when it returns null, activeAlerts, sevHistory and
\* lastFiredScore are unchanged. Earlier records are never removed,
\* reordered or followed by a clearing record until reset.
C29_EvaluateFrame ==
    [][ Len(evalLog') = Len(evalLog) + 1
          => LET call == evalLog'[Len(evalLog')]
             IN  IF call.ret # NoAlert
                 THEN /\ Len(activeAlerts') = Len(activeAlerts) + 1
                      /\ activeAlerts'[1].sev = call.ret
                      /\ activeAlerts'[1].score = call.score
                      /\ call.ret \in Severities
                      /\ Tail(activeAlerts') = activeAlerts
                      /\ sevHistory' = sevHistory \cup {call.ret}
                      /\ lastFiredScore' = call.score
                 ELSE /\ activeAlerts' = activeAlerts
                      /\ sevHistory' = sevHistory
                      /\ lastFiredScore' = lastFiredScore
      ]_vars

\* two alerts fired, most recent first, and the score then fell: evaluate
\* returned null and the log kept both
C29_Witness ==
    /\ evalLog = << [score |-> 72, ret |-> "CRITICAL"],
                    [score |-> 86, ret |-> "EMERGENCY"],
                    [score |-> 0, ret |-> NoAlert] >>
    /\ activeAlerts = <<MakeAlert("EMERGENCY", 86), MakeAlert("CRITICAL", 72)>>
    /\ sevHistory = {"CRITICAL", "EMERGENCY"}
    /\ lastFiredScore = 86

\* the messages the latest step broadcast
NewBroadcasts(before, after) == SubSeq(after, Len(before) + 1, Len(after))

\* the ticks for which AI_STREAM_START is in the messages sent
StreamStarts(sent) ==
    {sent[i].tick : i \in {j \in 1..Len(sent) : sent[j].type = "AI_STREAM_START"}}

\* C30: every alert has autoAnalyze = true iff its severity is CRITICAL or
\* EMERGENCY, and the tick loop broadcasts AI_STREAM_START from a tick only
\* when that tick fired an alert with autoAnalyze true (never for WARNING
\* and never on a tick without an alert).
C30_AutoAnalyzeOnlyCritical ==
    [][ /\ \A i \in 1..Len(activeAlerts') :
              activeAlerts'[i].autoAnalyze
                  <=> activeAlerts'[i].sev \in {"CRITICAL", "EMERGENCY"}
        /\ tickCount' = tickCount + 1
              => LET starts == StreamStarts(NewBroadcasts(broadcasts, broadcasts'))
                     ret    == evalLog'[Len(evalLog')].ret
                 IN  /\ starts \subseteq {tickCount'}
                     /\ starts # {}
                           => /\ Len(evalLog') = Len(evalLog) + 1
                              /\ ret \in {"CRITICAL", "EMERGENCY"}
                              /\ Len(activeAlerts') = Len(activeAlerts) + 1
                              /\ activeAlerts'[1].sev = ret
                              /\ activeAlerts'[1].autoAnalyze
      ]_vars

\* a tick fired CRITICAL and started a stream, and a tick fired WARNING
\* and started none
C30_Witness ==
    /\ \E i \in 1..Len(activeAlerts) : activeAlerts[i].sev = "WARNING"
    /\ \E i \in 1..Len(activeAlerts) : activeAlerts[i].sev = "CRITICAL"
    /\ Cardinality(StreamStarts(broadcasts)) >= 1
    /\ Cardinality({i \in 1..Len(broadcasts) : broadcasts[i].type = "ALERT"})
          > Cardinality(StreamStarts(broadcasts))

\* the last min(6, n) scores of a buffer of n, oldest first
RecentScores(h) ==
    LET n == IF Len(h) < 6 THEN Len(h) ELSE 6
    IN  [i \in 1..n |-> h[Len(h) - n + i]]

\* C31: the trend is computed from the last min(6, n) entries of the score
\* buffer including the current score: 'rising' iff their mean exceeds the
\* oldest of them by more than 8, 'falling' iff the mean is more than 8
\* below the oldest, otherwise 'stable'; with fewer than 3 scores recorded
\* it is 'stable'.
C31_TrendFromLastSix ==
    trendHist # <<>> =>
        LET recent == RecentScores(trendHist)
            n      == Len(recent)
            total  == SumSeq(recent)
        IN  IF Len(trendHist) < 3 THEN trendRet = "stable"
            ELSE /\ trendRet = "rising"  <=> total > n * (recent[1] + 8)
                 /\ trendRet = "falling" <=> total < n * (recent[1] - 8)
                 /\ trendRet \in {"rising", "falling", "stable"}

\* seven scores: the first, 100, has left the window of six, whose mean
\* (8) is exactly 8 above its oldest score, and the trend is stable
C31_Witness ==
    /\ trendHist = <<100, 0, 12, 12, 12, 12, 0>>
    /\ trendRet = "stable"

\* the internal nodes built so far
InternalNodes == {i \in 1..Len(treeNodes) : ~treeNodes[i].leaf}

\* C32: every internal node of a built isolation tree has a split value
\* strictly inside the open interval (min, max) of the chosen feature over
\* its partition, so both of its child partitions receive at least one
\* point.
C32_SplitStrictlyInside ==
    \A i \in InternalNodes :
        /\ treeNodes[i].mn < treeNodes[i].splitVal
        /\ treeNodes[i].splitVal < treeNodes[i].mx
        /\ treeNodes[i].left >= 1
        /\ treeNodes[i].right >= 1

\* the most nodes a call of build at the given depth can still make
CallWeight(depth) == 2 ^ (MAX_DEPTH - depth + 1) - 1

\* the most nodes the pending calls of build can still make
PendingWork(stack) ==
    SumSeq([i \in 1..Len(stack) |-> CallWeight(stack[i].depth)])

\* every node made so far is within the depth bound, and every leaf has one
\* of the three reasons of build
TreeWithinDepth(nodes) ==
    \A i \in 1..Len(nodes) :
        /\ nodes[i].depth <= MAX_DEPTH
        /\ ~nodes[i].leaf => nodes[i].depth <= MAX_DEPTH - 1
        /\ nodes[i].leaf =>
              \/ nodes[i].depth = MAX_DEPTH
              \/ nodes[i].size <= 1
              \/ nodes[i].feature # "none" /\ nodes[i].mn = nodes[i].mx

\* C33: IsoTree.build terminates for every subsample and every sequence of
\* random choices (each call strictly lowers the bounded amount of pending
\* work, which never goes below zero), every node lies at depth at most
\* ceil(log2(128)) = 7, and every leaf was emitted because the depth
\* reached 7, the partition had at most 1 point, or min equalled max for
\* the chosen feature; internal nodes lie at depths 0..6, so pathLength
\* passes at most 7 of them before it reaches a leaf.
C33_BuildTerminatesWithinDepth ==
    [][ /\ PendingWork(treeStack') < PendingWork(treeStack)
        /\ PendingWork(treeStack') >= 0
        /\ Len(treeNodes') <= CallWeight(0)
        /\ TreeWithinDepth(treeNodes') ]_vars

C33_Witness ==
    /\ treeStack = <<>>
    /\ \E i \in 1..Len(treeNodes) :
          /\ treeNodes[i].leaf /\ treeNodes[i].depth = MAX_DEPTH
          /\ treeNodes[i].size = 2
    /\ \E i \in 1..Len(treeNodes) :
          /\ treeNodes[i].leaf /\ treeNodes[i].depth < MAX_DEPTH
          /\ treeNodes[i].size = 8 /\ treeNodes[i].feature # "none"
    /\ \E i \in 1..Len(treeNodes) :
          /\ treeNodes[i].leaf /\ treeNodes[i].depth < MAX_DEPTH
          /\ treeNodes[i].size <= 1 /\ treeNodes[i].feature = "none"

\* C34: only one analysis stream runs at a time per session: while a stream
\* of the session is in flight no second one is started, neither by
\* triggerManualAnalysis nor by a tick that fired an autoAnalyze alert.
C34_OneStreamAtATime == Len(streams) <= 1

\* C35: deploy() with no session active resets the engines to their initial
\* state (pipeline untrained, ewma 0.5, lastScore 0, empty scoreHistory;
\* consecutiveHigh 0, empty sevHistory, lastFiredScore 0, empty alert log;
\* history and tick counter cleared), so what follows runs as on freshly
\* constructed engines; while a session is active deploy() changes nothing.
C35_DeployResetsEngines ==
    [][ deployLog' # deployLog =>
          IF session
          THEN UNCHANGED <<alertVars, scoringVars, sessionVars, session>>
          ELSE EnginesInit' /\ session' ]_vars

C35_Witness ==
    /\ Len(deployLog) = 3
    /\ deployLog[2].active /\ deployLog[2].alerted
    /\ ~deployLog[3].active /\ deployLog[3].alerted
    /\ session /\ tickCount = 0 /\ EnginesInit

\* the calls so far that fired an alert, in call order
FiringCalls == {i \in Calls : evalLog[i].ret # NoAlert}

\* the alerts whose severity had fired before in the session
ReFires == {i \in FiringCalls : LastFireOf(evalLog[i].ret, i) # 0}

\* C36: in one session, every alert whose severity had already fired
\* earlier has a score at least 10 above the score of the alert fired
\* immediately before it, whatever that alert's severity; with integer
\* scores in 0..100 the alerts of a session are therefore bounded in number:
\* each severity fires for the first time once, and the re-fires that
\* follow a first fire climb by 10 each from a score of at least 50.
C36_RefireClimbsTen ==
    /\ \A i \in ReFires :
          evalLog[i].score >= evalLog[LastFire(i)].score + HysteresisDelta
    /\ Cardinality(FiringCalls \ ReFires) <= Cardinality(Severities)
    /\ Cardinality(ReFires) <=
          Cardinality(FiringCalls \ ReFires)
            * ((100 - THRESHOLDS.WARNING.score) \div HysteresisDelta)

C36_Witness ==
    \E i \in ReFires :
        /\ evalLog[LastFire(i)].ret # evalLog[i].ret
        /\ evalLog[i].score = evalLog[LastFire(i)].score + HysteresisDelta

\* C37: no alert is fired on a tick whose pipeline result has phase
\* LEARNING: the server's loop calls evaluate with score 0, which returns
\* null and leaves consecutiveHigh at 0, and the browser's loop does not
\* call evaluate at all.
C37_NoAlertWhileLearning ==
    [][ tickCount' = tickCount + 1 /\ result'.phase = "LEARNING" =>
          /\ activeAlerts' = activeAlerts
          /\ emails' = emails
          /\ IF loopKind = "server"
             THEN /\ evalLog' = Append(evalLog, [score |-> 0, ret |-> NoAlert])
                  /\ consecutiveHigh' = 0
             ELSE UNCHANGED alertVars ]_vars

C37_Witness ==
    /\ loopKind = "client"
    /\ result.phase = "LEARNING"
    /\ tickCount = BASELINE_TICKS_NEEDED - 1
    /\ evalLog = <<>>
    /\ Len(deployLog) = 2

\* the snapshot with the request rate mirrored at the baseline's mean
MirroredRate(snapshot, baseline) ==
    [snapshot EXCEPT !.rate = 2 * MeanOf(Column(baseline, "rate")) - snapshot.rate]

\* the metric keys of a list of records, in list order
KeysOf(list) == [i \in 1..Len(list) |-> list[i].key]

\* the record of the request rate in a list compute returned
RateRecord(list) == list[CHOOSE i \in 1..Len(list) : list[i].key = "rate"]

\* C38: in every attribution record z is non-negative and equals the
\* magnitude of rawZ, for inverted and non-inverted metrics alike; the
\* inversion flag on rate changes neither ranking nor severity: a rise of
\* the request rate by k baseline standard deviations gets the same z, the
\* same severity and the same place in the list as a drop by k.
C38_ZIsMagnitude ==
    \A c \in 1..Len(attribution) :
        /\ \A i \in 1..Len(attribution[c]) :
              /\ attribution[c][i].z >= 0
              /\ attribution[c][i].z = Abs(attribution[c][i].rawZ)
        /\ attribution[c] # <<>> =>
              LET mirrored == Compute(MirroredRate(attrSnapshot, attrBaseline),
                                      attrBaseline)
              IN  /\ KeysOf(mirrored) = KeysOf(attribution[c])
                  /\ RateRecord(mirrored).z = RateRecord(attribution[c]).z
                  /\ RateRecord(mirrored).severity
                        = RateRecord(attribution[c]).severity
                  /\ RateRecord(mirrored).rawZ = -RateRecord(attribution[c]).rawZ

C38_Witness ==
    /\ Len(attribution) = 1
    /\ attribution[1] # <<>>
    /\ RateRecord(attribution[1]).inverse
    /\ RateRecord(attribution[1]).rawZ = 3500
    /\ RateRecord(attribution[1]).z = 3500
    /\ RateRecord(attribution[1]).severity = "critical"
    /\ attribution[1][1].key = "rate"
    /\ attribution[1][2].rawZ = -3500

\* C39: for any sequence of startSession and endSession calls, including
\* startSession called twice with the same id, a running tick timer exists
\* only for ids present in the session registry: every armed interval is
\* the interval of a registered session.
C39_TimersOnlyForRegistered ==
    \A h \in intervals : \E s \in sessions : s.interval = h

\* the requests schedule has accepted so far
AcceptedIds == (1..rlCalls) \ rlRejected

\* C40: every request schedule accepted is eventually started and its
\* promise settled (the function in flight settles), and accepted requests
\* are started in the order they were accepted, provided every started
\* function eventually settles, the timers keep firing and destroy() is
\* not called.
C40_AcceptedEventuallyStarted ==
    /\ \A n \in 1..(MaxSchedules + 1) :
          (n \in AcceptedIds) ~> (n \in StartedIds(rlStarts) /\ ~rlInFlight)
    /\ [](\A i \in 1..Len(rlStarts) : \A j \in 1..Len(rlStarts) :
             i < j => rlStarts[i].id < rlStarts[j].id)
    /\ [](\A n \in QueuedIds(rlQueue) : \A m \in AcceptedIds :
             m < n => m \in StartedIds(rlStarts) \cup QueuedIds(rlQueue))

C40_Witness ==
    /\ Len(rlStarts) = 3
    /\ rlStarts[1].at = MIN_GAP + REFILL_INTERVAL - 2
    /\ rlStarts[3].at = MIN_GAP + 3 * REFILL_INTERVAL - 2
    /\ rlStarts[3].id = 3
    /\ ~rlInFlight
    /\ rlQueue = <<>>

====
